---- MODULE Spec2Model ----
(***************************************************************************)
(* Model of the wall-e topology collector: the TopologyData store          *)
(* (types.go), the TopologyProcessor that turns metric events into store   *)
(* calls, and the TopologyManager that loads, saves and runs the           *)
(* background persistence loop.                                            *)
(***************************************************************************)
EXTENDS Integers, Sequences, FiniteSets, TLC

(***************************************************************************)
(* Bounds of the model.                                                    *)
(***************************************************************************)
\* operations (ProcessMetric, Start, Stop, ForceSave) started in one run
MaxOps == 4
\* ticks of the background loop in one run
MaxTicks == 2
\* file writes that fail in one run
MaxFails == 1

(***************************************************************************)
(* Small helpers on Go maps (functions with a finite domain) and slices.   *)
(***************************************************************************)
EmptyMap == <<>>

Has(m, k) == k \in DOMAIN m

\* m[k] = v on a Go map: the entry is added or overwritten
Put(m, k, v) == (k :> v) @@ m

\* m[k] of a map of slices: a missing key reads as the nil slice
SliceAt(m, k) == IF Has(m, k) THEN m[k] ELSE <<>>

Range(s) == {s[i] : i \in 1..Len(s)}

NonEmpty(names) == SelectSeq(names, LAMBDA n : n /= "")

(***************************************************************************)
(* The store: TopologyData and its constructor.                            *)
(***************************************************************************)
NewTopologyData ==
    [ ServiceCollection  |-> EmptyMap,
      ServiceReverse     |-> EmptyMap,
      EndpointCollection |-> EmptyMap,
      EndpointReverse    |-> EmptyMap,
      EndpointMapping    |-> EmptyMap,
      ConnectionGraph    |-> EmptyMap,
      ParentCollection   |-> EmptyMap,
      ServiceCounter     |-> 1,
      EndpointCounter    |-> 1,
      hasChanges         |-> FALSE ]

markChanged(t) == [t EXCEPT !.hasChanges = TRUE]

MarkSaved(t) == [t EXCEPT !.hasChanges = FALSE]

\* the structure of a store: all of it but the flag
Structure(t) == [t EXCEPT !.hasChanges = FALSE]

\* A get-or-create that does not bump the counter after handing out its value.
GetServiceIDNoBump(t, name) ==
    IF Has(t.ServiceCollection, name)
    THEN [td |-> t, id |-> t.ServiceCollection[name], created |-> FALSE]
    ELSE [td |-> markChanged(
                    [t EXCEPT !.ServiceCollection = Put(@, name, t.ServiceCounter),
                              !.ServiceReverse = Put(@, t.ServiceCounter, name)]),
          id |-> t.ServiceCounter, created |-> TRUE]

\* GetServiceID: the store after the call, the ID returned, and wasNewlyCreated
GetServiceID(t, name) ==
    IF Has(t.ServiceCollection, name)
    THEN [td |-> t, id |-> t.ServiceCollection[name], created |-> FALSE]
    ELSE [td |-> markChanged(
                    [t EXCEPT !.ServiceCollection = Put(@, name, t.ServiceCounter),
                              !.ServiceReverse = Put(@, t.ServiceCounter, name),
                              !.ServiceCounter = @ + 1]),
          id |-> t.ServiceCounter, created |-> TRUE]

GetEndpointID(t, name) ==
    IF Has(t.EndpointCollection, name)
    THEN [td |-> t, id |-> t.EndpointCollection[name], created |-> FALSE]
    ELSE [td |-> markChanged(
                    [t EXCEPT !.EndpointCollection = Put(@, name, t.EndpointCounter),
                              !.EndpointReverse = Put(@, t.EndpointCounter, name),
                              !.EndpointCounter = @ + 1]),
          id |-> t.EndpointCounter, created |-> TRUE]

\* an append of every ID, whether the slice has it or not
AppendAll(slice, ids) == slice \o ids

\* the loop "append each ID that is not in the slice yet"
RECURSIVE AppendMissing(_, _)
AppendMissing(slice, ids) ==
    IF ids = <<>> THEN slice
    ELSE AppendMissing(IF Head(ids) \in Range(slice) THEN slice
                       ELSE Append(slice, Head(ids)),
                       Tail(ids))

\* an AddToEndpointMapping that marks the store changed whatever it added
AddToEndpointMappingMarked(t, serviceID, upstreamLinkIDs) ==
    markChanged([t EXCEPT !.EndpointMapping =
                     Put(@, serviceID,
                         AppendMissing(SliceAt(t.EndpointMapping, serviceID),
                                       upstreamLinkIDs))])

AddToEndpointMapping(t, serviceID, upstreamLinkIDs) ==
    LET old == SliceAt(t.EndpointMapping, serviceID)
        new == AppendMissing(old, upstreamLinkIDs)
        t1  == [t EXCEPT !.EndpointMapping = Put(@, serviceID, new)]
    IN  IF new /= old THEN markChanged(t1) ELSE t1

\* an inner loop that gives every downstream service every downstream link
RECURSIVE AddEdgesFromEveryLink(_, _, _, _)
AddEdgesFromEveryLink(row, downstreamServiceIDs, downstreamLinkIDs, i) ==
    IF i > Len(downstreamServiceIDs) THEN row
    ELSE AddEdgesFromEveryLink(
            Put(row, downstreamServiceIDs[i],
                AppendMissing(SliceAt(row, downstreamServiceIDs[i]), downstreamLinkIDs)),
            downstreamServiceIDs, downstreamLinkIDs, i + 1)

\* the inner loop of AddToConnectionGraph for one upstream service: index i
\* of the downstream services pairs with index i of the downstream links
RECURSIVE AddEdgesFrom(_, _, _, _)
AddEdgesFrom(row, downstreamServiceIDs, downstreamLinkIDs, i) ==
    IF i > Len(downstreamServiceIDs) THEN row
    ELSE IF i <= Len(downstreamLinkIDs)
         THEN AddEdgesFrom(
                 Put(row, downstreamServiceIDs[i],
                     AppendMissing(SliceAt(row, downstreamServiceIDs[i]),
                                   <<downstreamLinkIDs[i]>>)),
                 downstreamServiceIDs, downstreamLinkIDs, i + 1)
         ELSE AddEdgesFrom(row, downstreamServiceIDs, downstreamLinkIDs, i + 1)

RECURSIVE AddEdges(_, _, _, _)
AddEdges(graph, upstreamServiceIDs, downstreamServiceIDs, downstreamLinkIDs) ==
    IF upstreamServiceIDs = <<>> THEN graph
    ELSE LET usID == Head(upstreamServiceIDs)
             row  == IF Has(graph, usID) THEN graph[usID] ELSE EmptyMap
         IN  AddEdges(Put(graph, usID,
                          AddEdgesFrom(row, downstreamServiceIDs, downstreamLinkIDs, 1)),
                      Tail(upstreamServiceIDs), downstreamServiceIDs, downstreamLinkIDs)

\* the number of link IDs stored in the graph: an append shows as a growth
GraphSize(graph) ==
    LET RECURSIVE RowSum(_, _)
        RowSum(row, ks) == IF ks = {} THEN 0
                           ELSE LET k == CHOOSE x \in ks : TRUE
                                IN  Len(row[k]) + RowSum(row, ks \ {k})
        RECURSIVE Sum(_)
        Sum(ks) == IF ks = {} THEN 0
                   ELSE LET k == CHOOSE x \in ks : TRUE
                        IN  RowSum(graph[k], DOMAIN graph[k]) + Sum(ks \ {k})
    IN  Sum(DOMAIN graph)

AddToConnectionGraph(t, upstreamServiceIDs, downstreamServiceIDs, downstreamLinkIDs) ==
    LET new == AddEdges(t.ConnectionGraph, upstreamServiceIDs,
                        downstreamServiceIDs, downstreamLinkIDs)
        t1  == [t EXCEPT !.ConnectionGraph = new]
    IN  IF GraphSize(new) /= GraphSize(t.ConnectionGraph) THEN markChanged(t1) ELSE t1

\* a loop that stores the upstream links in place of the parents recorded
RECURSIVE AddParentsInPlace(_, _, _)
AddParentsInPlace(parents, upstreamLinkIDs, downstreamLinkIDs) ==
    IF downstreamLinkIDs = <<>> THEN parents
    ELSE AddParentsInPlace(Put(parents, Head(downstreamLinkIDs),
                               AppendMissing(<<>>, upstreamLinkIDs)),
                           upstreamLinkIDs, Tail(downstreamLinkIDs))

RECURSIVE AddParents(_, _, _)
AddParents(parents, upstreamLinkIDs, downstreamLinkIDs) ==
    IF downstreamLinkIDs = <<>> THEN parents
    ELSE LET dlID == Head(downstreamLinkIDs)
         IN  AddParents(Put(parents, dlID,
                            AppendMissing(SliceAt(parents, dlID), upstreamLinkIDs)),
                        upstreamLinkIDs, Tail(downstreamLinkIDs))

AddToParentCollection(t, upstreamLinkIDs, downstreamLinkIDs) ==
    LET new == AddParents(t.ParentCollection, upstreamLinkIDs, downstreamLinkIDs)
        t1  == [t EXCEPT !.ParentCollection = new]
        grew == \E k \in DOMAIN new : Len(new[k]) /= Len(SliceAt(t.ParentCollection, k))
    IN  IF grew THEN markChanged(t1) ELSE t1

(***************************************************************************)
(* JSON: the snapshot file.  encoding/json writes the keys of an int-keyed *)
(* map as decimal strings and reads them back; hasChanges and the mutex    *)
(* are tagged json:"-" and are no part of the file.                        *)
(***************************************************************************)
Decimal == <<"1", "2", "3", "4", "5", "6", "7", "8", "9">>

Itoa(i) == Decimal[i]

Atoi(s) == CHOOSE i \in 1..Len(Decimal) : Decimal[i] = s

EncodeKeys(m) == [s \in {Itoa(k) : k \in DOMAIN m} |-> m[Atoi(s)]]

DecodeKeys(j) == [k \in {Atoi(s) : s \in DOMAIN j} |-> j[Itoa(k)]]

\* ToJSON: json.MarshalIndent of the store, taken under the read lock
ToJSON(t) ==
    [ service_collection  |-> t.ServiceCollection,
      service_reverse     |-> EncodeKeys(t.ServiceReverse),
      endpoint_collection |-> t.EndpointCollection,
      endpoint_reverse    |-> EncodeKeys(t.EndpointReverse),
      endpoint_mapping    |-> EncodeKeys(t.EndpointMapping),
      connection_graph    |-> EncodeKeys([u \in DOMAIN t.ConnectionGraph |->
                                             EncodeKeys(t.ConnectionGraph[u])]),
      parent_collection   |-> EncodeKeys(t.ParentCollection),
      service_counter     |-> t.ServiceCounter,
      endpoint_counter    |-> t.EndpointCounter ]

\* a load that leaves the two counters as they are
FromJSONWithoutCounters(t, j) ==
    [t EXCEPT !.ServiceCollection  = j.service_collection @@ @,
              !.ServiceReverse     = DecodeKeys(j.service_reverse) @@ @,
              !.EndpointCollection = j.endpoint_collection @@ @,
              !.EndpointReverse    = DecodeKeys(j.endpoint_reverse) @@ @,
              !.EndpointMapping    = DecodeKeys(j.endpoint_mapping) @@ @,
              !.ConnectionGraph    =
                  (LET g == DecodeKeys(j.connection_graph)
                   IN  [u \in DOMAIN g |-> DecodeKeys(g[u])]) @@ @,
              !.ParentCollection   = DecodeKeys(j.parent_collection) @@ @]

\* FromJSON: json.Unmarshal into the live struct, under the write lock.
\* Unmarshal reuses a non-nil map and keeps its entries: a key of the file
\* overwrites the entry, a key only in memory stays.  A map element is
\* decoded into a fresh value, so an inner map or slice is replaced whole.
\* The two counters are overwritten; hasChanges is not touched.
FromJSON(t, j) ==
    [t EXCEPT !.ServiceCollection  = j.service_collection @@ @,
              !.ServiceReverse     = DecodeKeys(j.service_reverse) @@ @,
              !.EndpointCollection = j.endpoint_collection @@ @,
              !.EndpointReverse    = DecodeKeys(j.endpoint_reverse) @@ @,
              !.EndpointMapping    = DecodeKeys(j.endpoint_mapping) @@ @,
              !.ConnectionGraph    =
                  (LET g == DecodeKeys(j.connection_graph)
                   IN  [u \in DOMAIN g |-> DecodeKeys(g[u])]) @@ @,
              !.ParentCollection   = DecodeKeys(j.parent_collection) @@ @,
              !.ServiceCounter     = j.service_counter,
              !.EndpointCounter    = j.endpoint_counter]

\* json.Unmarshal of a document with values of the wrong type: Unmarshal
\* skips each such field, decodes the others into the live struct as ever,
\* and returns the UnmarshalTypeError of the first.
FromJSONSkipping(t, j, bad) ==
    LET all == FromJSON(t, j)
    IN  [t EXCEPT
           !.ServiceCollection  = IF "service_collection" \in bad THEN @ ELSE all.ServiceCollection,
           !.ServiceReverse     = IF "service_reverse" \in bad THEN @ ELSE all.ServiceReverse,
           !.EndpointCollection = IF "endpoint_collection" \in bad THEN @ ELSE all.EndpointCollection,
           !.EndpointReverse    = IF "endpoint_reverse" \in bad THEN @ ELSE all.EndpointReverse,
           !.EndpointMapping    = IF "endpoint_mapping" \in bad THEN @ ELSE all.EndpointMapping,
           !.ConnectionGraph    = IF "connection_graph" \in bad THEN @ ELSE all.ConnectionGraph,
           !.ParentCollection   = IF "parent_collection" \in bad THEN @ ELSE all.ParentCollection,
           !.ServiceCounter     = IF "service_counter" \in bad THEN @ ELSE all.ServiceCounter,
           !.EndpointCounter    = IF "endpoint_counter" \in bad THEN @ ELSE all.EndpointCounter]

\* the value of the file when no file exists
NoFile == [exists |-> FALSE]
\* a file that is no JSON document (a write that failed part-way leaves one)
Malformed == [exists |-> TRUE]

\* A JSON document in which the values of the fields `bad` are of another
\* type than the struct fields they are decoded into (a string for a
\* counter, a number for a map).
Mistyped(j, bad) == [mistyped |-> bad] @@ j

\* the fields of a document for which json.Unmarshal reports an
\* UnmarshalTypeError
TypeErrors(data) == IF "mistyped" \in DOMAIN data THEN data.mistyped ELSE {}

(***************************************************************************)
(* Metric events and the processor.                                        *)
(***************************************************************************)
CONTROLLER == "METRIC_TYPE_CONTROLLER"
HTTP == "METRIC_TYPE_HTTP"
UNSPECIFIED == "METRIC_TYPE_UNSPECIFIED"

Metric(type, service, us, ds, ul, dl) ==
    [MetricType |-> type, Service |-> service, Topology |-> TRUE,
     UpstreamServices |-> us, DownstreamServices |-> ds,
     UpstreamLinks |-> ul, DownstreamLinks |-> dl]

\* a metric whose Topology is nil
NoTopology(type, service) ==
    [Metric(type, service, <<>>, <<>>, <<>>, <<>>) EXCEPT !.Topology = FALSE]

\* the IDs the name-to-ID loops of the processor collect: empty names are
\* skipped, every other name is looked up with GetServiceID / GetEndpointID
IDs(collection, names) ==
    LET ns == NonEmpty(names) IN [i \in 1..Len(ns) |-> collection[ns[i]]]

\* one store call per name: processServiceMappings / processEndpointMappings
Register(kind, names) ==
    LET ns == NonEmpty(names) IN [i \in 1..Len(ns) |-> [k |-> kind, n |-> ns[i]]]

processServiceMappings(us, ds) == Register("svc", us) \o Register("svc", ds)

processEndpointMappings(ul, dl) == Register("ep", ul) \o Register("ep", dl)

\* processServiceToLinksMapping: GetServiceID(service), GetEndpointID of each
\* link, then AddToEndpointMapping
processServiceToLinksMapping(service, ul) ==
    IF service = "" \/ Len(ul) = 0 THEN <<>>
    ELSE <<[k |-> "svc", n |-> service]>> \o Register("ep", ul)
         \o (IF NonEmpty(ul) /= <<>>
             THEN <<[k |-> "addEM", s |-> service, ul |-> ul]>> ELSE <<>>)

\* processConnectionGraph: the three conversions, then AddToConnectionGraph
processConnectionGraph(us, ds, dl) ==
    IF Len(us) = 0 \/ Len(ds) = 0 \/ Len(dl) = 0 THEN <<>>
    ELSE Register("svc", us) \o Register("svc", ds) \o Register("ep", dl)
         \o (IF NonEmpty(us) /= <<>> /\ NonEmpty(ds) /= <<>> /\ NonEmpty(dl) /= <<>>
             THEN <<[k |-> "addCG", us |-> us, ds |-> ds, dl |-> dl]>> ELSE <<>>)

\* processParentCollection: the two conversions, then AddToParentCollection
processParentCollection(ul, dl) ==
    IF Len(ul) = 0 \/ Len(dl) = 0 THEN <<>>
    ELSE Register("ep", ul) \o Register("ep", dl)
         \o (IF NonEmpty(ul) /= <<>> /\ NonEmpty(dl) /= <<>>
             THEN <<[k |-> "addPC", ul |-> ul, dl |-> dl]>> ELSE <<>>)

\* The statements of processConnectionGraphSmart that touch ConnectionGraph
\* directly (no store method, no lock), in program order.  Case 2, for one
\* upstream service u and the current service d: the nil check of
\* ConnectionGraph[u], then per link the nil check of ConnectionGraph[u][d]
\* and the scan-and-append of the link.
RECURSIVE SmartLinks(_, _, _)
SmartLinks(u, d, links) ==
    IF links = <<>> THEN <<>>
    ELSE <<[k |-> "cgInner", u |-> u, d |-> d],
           [k |-> "cgLink", u |-> u, d |-> d, l |-> Head(links)]>>
         \o SmartLinks(u, d, Tail(links))

\* a case 2 that pairs upstream service i with upstream link i
RECURSIVE SmartUpstreamPaired(_, _, _)
SmartUpstreamPaired(us, d, links) ==
    IF us = <<>> \/ links = <<>> THEN <<>>
    ELSE <<[k |-> "cgOuter", u |-> Head(us)]>> \o SmartLinks(Head(us), d, <<Head(links)>>)
         \o SmartUpstreamPaired(Tail(us), d, Tail(links))

RECURSIVE SmartUpstream(_, _, _)
SmartUpstream(us, d, links) ==
    IF us = <<>> THEN <<>>
    ELSE <<[k |-> "cgOuter", u |-> Head(us)]>> \o SmartLinks(Head(us), d, links)
         \o SmartUpstream(Tail(us), d, links)

\* Case 3, for the current service u: index i of the downstream services
\* pairs with index i of the downstream links.
\* a case 3 that gives every downstream service every downstream link
RECURSIVE SmartDownstreamEveryLink(_, _, _)
SmartDownstreamEveryLink(u, ds, links) ==
    IF ds = <<>> \/ links = <<>> THEN <<>>
    ELSE SmartLinks(u, Head(ds), links) \o SmartDownstreamEveryLink(u, Tail(ds), links)

RECURSIVE SmartDownstream(_, _, _)
SmartDownstream(u, ds, links) ==
    IF ds = <<>> \/ links = <<>> THEN <<>>
    ELSE <<[k |-> "cgInner", u |-> u, d |-> Head(ds)],
           [k |-> "cgLink", u |-> u, d |-> Head(ds), l |-> Head(links)]>>
         \o SmartDownstream(u, Tail(ds), Tail(links))

processConnectionGraphSmart(service, us, ds, ul, dl) ==
    IF Len(us) > 0 /\ Len(ds) > 0 /\ Len(dl) > 0
    THEN processConnectionGraph(us, ds, dl)
    ELSE (IF Len(us) > 0 /\ Len(ul) > 0 /\ service /= ""
          THEN <<[k |-> "svc", n |-> service]>> \o Register("svc", us)
               \o Register("ep", ul)
               \o SmartUpstream(NonEmpty(us), service, NonEmpty(ul))
          ELSE <<>>)
         \o
         (IF Len(ds) > 0 /\ Len(dl) > 0 /\ service /= ""
          THEN <<[k |-> "svc", n |-> service]>> \o Register("svc", ds)
               \o Register("ep", dl)
               \o <<[k |-> "cgOuter", u |-> service]>>
               \o SmartDownstream(service, NonEmpty(ds), NonEmpty(dl))
          ELSE <<>>)

\* the root entries of processParentCollectionSmart: per link the nil check
\* of ParentCollection[link] and the store of an empty slice, without lock
RootEntries(links) ==
    LET ns == NonEmpty(links) IN [i \in 1..Len(ns) |-> [k |-> "pcRoot", l |-> ns[i]]]

processParentCollectionSmart(ul, dl) ==
    IF Len(ul) > 0 /\ Len(dl) > 0
    THEN processParentCollection(ul, dl)
    ELSE (IF Len(ul) > 0 THEN Register("ep", ul) \o RootEntries(ul) ELSE <<>>)
         \o (IF Len(dl) > 0 THEN Register("ep", dl) \o RootEntries(dl) ELSE <<>>)

\* a ProcessMetric that registers the own service before it looks at the
\* payload
ProcessMetricServiceFirst(m) ==
    IF m.MetricType /= CONTROLLER /\ m.MetricType /= HTTP THEN <<>>
    ELSE IF m.Service /= "" THEN <<[k |-> "svc", n |-> m.Service]>> ELSE <<>>

\* TopologyProcessor.ProcessMetric of the two-type processor: the store
\* calls and direct map accesses it makes for a metric, in program order
ProcessMetric(m) ==
    IF m.MetricType /= CONTROLLER /\ m.MetricType /= HTTP THEN <<>>
    ELSE IF ~m.Topology THEN <<>>
    ELSE LET hasUS == Len(m.UpstreamServices) > 0
             hasDS == Len(m.DownstreamServices) > 0
             hasUL == Len(m.UpstreamLinks) > 0
             hasDL == Len(m.DownstreamLinks) > 0
             basic ==
                 (IF hasUS \/ hasDS
                  THEN processServiceMappings(m.UpstreamServices, m.DownstreamServices)
                  ELSE <<>>)
                 \o (IF m.Service /= "" THEN <<[k |-> "svc", n |-> m.Service]>> ELSE <<>>)
                 \o (IF hasUL \/ hasDL
                     THEN processEndpointMappings(m.UpstreamLinks, m.DownstreamLinks)
                     ELSE <<>>)
         IN  IF m.MetricType = CONTROLLER
             THEN basic \o (IF m.Service /= "" /\ hasUL
                            THEN processServiceToLinksMapping(m.Service, m.UpstreamLinks)
                            ELSE <<>>)
             ELSE basic
                  \o processConnectionGraphSmart(m.Service, m.UpstreamServices,
                         m.DownstreamServices, m.UpstreamLinks, m.DownstreamLinks)
                  \o processParentCollectionSmart(m.UpstreamLinks, m.DownstreamLinks)

\* a single-type ProcessMetric without its check of the type tag
ProcessMetricSingleAnyType(m) ==
    IF ~m.Topology THEN <<>>
    ELSE processServiceMappings(m.UpstreamServices, m.DownstreamServices)
         \o processEndpointMappings(m.UpstreamLinks, m.DownstreamLinks)

\* TopologyProcessor.ProcessMetric of the single-type processor
\* (processor.go): CONTROLLER metrics only, every structure through the
\* store's methods
ProcessMetricSingle(m) ==
    IF m.MetricType /= CONTROLLER THEN <<>>
    ELSE IF ~m.Topology THEN <<>>
    ELSE LET hasUS == Len(m.UpstreamServices) > 0
             hasDS == Len(m.DownstreamServices) > 0
             hasUL == Len(m.UpstreamLinks) > 0
             hasDL == Len(m.DownstreamLinks) > 0
         IN  (IF hasUS \/ hasDS
              THEN processServiceMappings(m.UpstreamServices, m.DownstreamServices)
              ELSE <<>>)
             \o (IF hasUL \/ hasDL
                 THEN processEndpointMappings(m.UpstreamLinks, m.DownstreamLinks)
                 ELSE <<>>)
             \o (IF m.Service /= "" /\ hasUL
                 THEN processServiceToLinksMapping(m.Service, m.UpstreamLinks)
                 ELSE <<>>)
             \o (IF hasUS /\ hasDS /\ hasDL
                 THEN processConnectionGraph(m.UpstreamServices, m.DownstreamServices,
                                             m.DownstreamLinks)
                 ELSE <<>>)
             \o (IF hasUL /\ hasDL
                 THEN processParentCollection(m.UpstreamLinks, m.DownstreamLinks)
                 ELSE <<>>)

\* What a caller of GetTopologyData holds: a pointer to the live store (ref
\* "live"), or a store of its own (ref "copy", the store in val).
NoSnapshot == [ref |-> "none", val |-> NewTopologyData]

\* GetTopologyData of the manager and of the processor: return tp.data
GetTopologyData == [ref |-> "live", val |-> NewTopologyData]

\* the processor a goroutine calls: the two-type one or the single-type one
Processors == {"twoType", "singleType"}

Program(proc, m) == IF proc = "twoType" THEN ProcessMetric(m) ELSE ProcessMetricSingle(m)

\* the metric of a goroutine that is in no ProcessMetric call
NoMetric == Metric(UNSPECIFIED, "", <<>>, <<>>, <<>>, <<>>)

(***************************************************************************)
(* The state.                                                              *)
(*   td         the TopologyData of the singleton manager's processor      *)
(*   file       the content of each snapshot file (NoFile: it is absent)   *)
(*   filename   TopologyManager.filename                                   *)
(*   isRunning  TopologyManager.isRunning                                  *)
(*   tmMutex    the holder of TopologyManager.mutex, or "free"             *)
(*   policy     which manager is built: "periodic" (periodicSave) or       *)
(*              "changeBased" (changeBasedSave)                            *)
(*   threads    per goroutine: where it is (pc), the call it serves        *)
(*              (role), the store calls ProcessMetric has left (prog,      *)
(*              phase), and the bytes ToJSON or ReadFile returned (snap);  *)
(*              for a direct call of TopologyProcessor.ProcessMetric also  *)
(*              history: the processor called (proc), the metric (m), the  *)
(*              store when the call began (pre), and of the call before it *)
(*              the metric, the store at its return and how many times in  *)
(*              a row that metric has been submitted (last); for a caller  *)
(*              of GetTopologyData what it was handed (held), with the     *)
(*              store at that moment (pre)                                 *)
(*   crashed    the Go runtime ended the process (fatal error: concurrent  *)
(*              map read and map write / concurrent map writes)            *)
(* History, for stating the claims:                                        *)
(*   written    per file, the structure of the store whose snapshot the    *)
(*              file holds (the empty store while it holds none)           *)
(*   ops, ticks, fails   calls, ticks and failed writes so far             *)
(*   svcIssued, epIssued      <<name, id>> of every created = true, in     *)
(*                            order                                        *)
(*   svcReturned, epReturned  <<name, id, created>> of every GetServiceID  *)
(*                            / GetEndpointID return                       *)
(*   stopLog    per Stop call that returned: whether it found the manager  *)
(*              running, the SaveToFile calls it made, isRunning at return *)
(***************************************************************************)
VARIABLES td, file, written, filename, isRunning, tmMutex, policy, threads, crashed,
          ops, ticks, fails, svcIssued, epIssued, svcReturned, epReturned, stopLog

vars == <<td, file, written, filename, isRunning, tmMutex, policy, threads, crashed,
          ops, ticks, fails, svcIssued, epIssued, svcReturned, epReturned, stopLog>>

manager == <<isRunning, tmMutex, policy, filename>>
history == <<fails, svcIssued, epIssued, svcReturned, epReturned>>

\* the goroutines that call into the manager, and the background loops
Callers == {"c1", "c2"}
Loops == {"loop1", "loop2"}
Threads == Callers \cup Loops

\* the paths SetFilename is called with; GetInstance sets the first
Filenames == {"connection.json", "topology.json"}

Idle == [pc |-> "idle", role |-> "none", prog |-> <<>>, phase |-> "chk",
         snap |-> NoFile, saves |-> 0, name |-> "connection.json",
         held |-> NoSnapshot,
         proc |-> "none", m |-> NoMetric, pre |-> NewTopologyData,
         last |-> [m |-> NoMetric, post |-> NewTopologyData, n |-> 0]]

\* GetInstance: the manager as once.Do builds it, no file written yet
Init ==
    /\ td = NewTopologyData
    /\ file = [f \in Filenames |-> NoFile]
    /\ written = [f \in Filenames |-> NewTopologyData]
    /\ filename = "connection.json"
    /\ isRunning = FALSE
    /\ tmMutex = "free"
    /\ policy \in {"periodic", "changeBased"}
    /\ threads = [t \in Threads |-> Idle]
    /\ crashed = FALSE
    /\ ops = 0
    /\ ticks = 0
    /\ fails = 0
    /\ svcIssued = <<>>
    /\ epIssued = <<>>
    /\ svcReturned = {}
    /\ epReturned = {}
    /\ stopLog = {}

Set(t, rec) == threads' = [threads EXCEPT ![t] = rec]

(***************************************************************************)
(* td.mutex.  Every store method locks and unlocks within its call         *)
(* (defer), and SaveToFile / LoadFromFile do their file I/O between two    *)
(* such calls, so a goroutine between two steps holds the lock in no       *)
(* mode: "none", "r" (RLock) or "w" (Lock).                                *)
(***************************************************************************)
\* a SaveToFile that keeps the read lock from ToJSON through the file write
StoreLockThroughWrite(pc) == IF pc = "write" THEN "r" ELSE "none"

\* the mode in which a goroutine at pc holds td.mutex
StoreLockAt(pc) == "none"

\* td.mutex.Lock() returns: no other goroutine holds the lock
Lockable(t) == \A u \in Threads \ {t} : StoreLockAt(threads[u].pc) = "none"

\* td.mutex.RLock() returns: no other goroutine holds the write lock
RLockable(t) == \A u \in Threads \ {t} : StoreLockAt(threads[u].pc) /= "w"

\* the thread after the store call or map access at the head of prog
Advance(t) ==
    [threads[t] EXCEPT !.prog = Tail(@), !.phase = "chk",
                       !.pc = IF Tail(threads[t].prog) = <<>> THEN "after" ELSE "run"]

At(t, kind) ==
    /\ ~crashed
    /\ threads[t].pc = "run"
    /\ threads[t].prog /= <<>>
    /\ Head(threads[t].prog).k = kind

(***************************************************************************)
(* TopologyManager.ProcessMetric                                           *)
(***************************************************************************)
\* the call, up to tm.processor.GetTopologyData() (a pointer to td)
Submit(t, m) ==
    /\ ~crashed
    /\ threads[t].pc = "idle"
    /\ ops < MaxOps
    /\ ops' = ops + 1
    /\ Set(t, [Idle EXCEPT !.pc = "before", !.role = "pm", !.prog = ProcessMetric(m)])
    /\ UNCHANGED <<td, file, written, manager, crashed, ticks, history, stopLog>>

\* beforeCount: len(ServiceCollection) + len(EndpointCollection), no lock
CountBefore(t) ==
    /\ ~crashed
    /\ threads[t].pc = "before"
    /\ Set(t, [threads[t] EXCEPT !.pc = IF threads[t].prog = <<>> THEN "after" ELSE "run"])
    /\ UNCHANGED <<td, file, written, manager, crashed, ops, ticks, history, stopLog>>

CallGetServiceID(t) ==
    /\ At(t, "svc")
    /\ Lockable(t)
    /\ LET r == GetServiceID(td, Head(threads[t].prog).n)
           pair == <<Head(threads[t].prog).n, r.id>>
       IN  /\ td' = r.td
           /\ svcReturned' = svcReturned \cup {<<pair[1], pair[2], r.created>>}
           /\ svcIssued' = IF r.created THEN Append(svcIssued, pair) ELSE svcIssued
    /\ Set(t, Advance(t))
    /\ UNCHANGED <<file, written, manager, crashed, ops, ticks, fails, epIssued, epReturned, stopLog>>

CallGetEndpointID(t) ==
    /\ At(t, "ep")
    /\ Lockable(t)
    /\ LET r == GetEndpointID(td, Head(threads[t].prog).n)
           pair == <<Head(threads[t].prog).n, r.id>>
       IN  /\ td' = r.td
           /\ epReturned' = epReturned \cup {<<pair[1], pair[2], r.created>>}
           /\ epIssued' = IF r.created THEN Append(epIssued, pair) ELSE epIssued
    /\ Set(t, Advance(t))
    /\ UNCHANGED <<file, written, manager, crashed, ops, ticks, fails, svcIssued, svcReturned, stopLog>>

CallAddToEndpointMapping(t) ==
    /\ At(t, "addEM")
    /\ Lockable(t)
    /\ LET op == Head(threads[t].prog)
       IN  td' = AddToEndpointMapping(td, td.ServiceCollection[op.s],
                                      IDs(td.EndpointCollection, op.ul))
    /\ Set(t, Advance(t))
    /\ UNCHANGED <<file, written, manager, crashed, ops, ticks, history, stopLog>>

CallAddToConnectionGraph(t) ==
    /\ At(t, "addCG")
    /\ Lockable(t)
    /\ LET op == Head(threads[t].prog)
       IN  td' = AddToConnectionGraph(td, IDs(td.ServiceCollection, op.us),
                                      IDs(td.ServiceCollection, op.ds),
                                      IDs(td.EndpointCollection, op.dl))
    /\ Set(t, Advance(t))
    /\ UNCHANGED <<file, written, manager, crashed, ops, ticks, history, stopLog>>

CallAddToParentCollection(t) ==
    /\ At(t, "addPC")
    /\ Lockable(t)
    /\ LET op == Head(threads[t].prog)
       IN  td' = AddToParentCollection(td, IDs(td.EndpointCollection, op.ul),
                                       IDs(td.EndpointCollection, op.dl))
    /\ Set(t, Advance(t))
    /\ UNCHANGED <<file, written, manager, crashed, ops, ticks, history, stopLog>>

\* The direct accesses of processConnectionGraphSmart.  Each is a read (the
\* nil check, or the scan for the link) and, when the read says so, a write.
\* No lock is taken, so other goroutines run between the read and the write.
SmartGraphNeedsWrite(t, op) ==
    LET g == t.ConnectionGraph
        u == t.ServiceCollection[op.u]
    IN  CASE op.k = "cgOuter" -> ~Has(g, u)
          [] op.k = "cgInner" -> ~(Has(g, u) /\ Has(g[u], t.ServiceCollection[op.d]))
          [] op.k = "cgLink"  ->
               ~(Has(g, u) /\ Has(g[u], t.ServiceCollection[op.d])
                 /\ t.EndpointCollection[op.l] \in Range(g[u][t.ServiceCollection[op.d]]))

SmartGraphCheck(t) ==
    /\ \E kind \in {"cgOuter", "cgInner", "cgLink"} : At(t, kind)
    /\ threads[t].phase = "chk"
    /\ Set(t, IF SmartGraphNeedsWrite(td, Head(threads[t].prog))
              THEN [threads[t] EXCEPT !.phase = "wr"]
              ELSE Advance(t))
    /\ UNCHANGED <<td, file, written, manager, crashed, ops, ticks, history, stopLog>>

\* the write: a fresh inner map, a fresh empty slice, or the append.  markChanged
\* is not called on this path.
SmartGraphStore(t, op) ==
    LET g == t.ConnectionGraph
        u == t.ServiceCollection[op.u]
        row == IF Has(g, u) THEN g[u] ELSE EmptyMap
    IN  CASE op.k = "cgOuter" -> [t EXCEPT !.ConnectionGraph = Put(g, u, EmptyMap)]
          [] op.k = "cgInner" ->
               [t EXCEPT !.ConnectionGraph =
                    Put(g, u, Put(row, t.ServiceCollection[op.d], <<>>))]
          [] op.k = "cgLink" ->
               [t EXCEPT !.ConnectionGraph =
                    Put(g, u, Put(row, t.ServiceCollection[op.d],
                                  Append(SliceAt(row, t.ServiceCollection[op.d]),
                                         t.EndpointCollection[op.l])))]

SmartGraphWrite(t) ==
    /\ \E kind \in {"cgOuter", "cgInner", "cgLink"} : At(t, kind)
    /\ threads[t].phase = "wr"
    /\ td' = SmartGraphStore(td, Head(threads[t].prog))
    /\ Set(t, Advance(t))
    /\ UNCHANGED <<file, written, manager, crashed, ops, ticks, history, stopLog>>

\* The direct accesses of processParentCollectionSmart: the nil check of
\* ParentCollection[link], then the store of an empty slice.
\* a root entry stored without the nil check
SmartRootCheckSkipped(t) ==
    /\ At(t, "pcRoot")
    /\ threads[t].phase = "chk"
    /\ Set(t, [threads[t] EXCEPT !.phase = "wr"])
    /\ UNCHANGED <<td, file, written, manager, crashed, ops, ticks, history, stopLog>>

SmartRootCheck(t) ==
    /\ At(t, "pcRoot")
    /\ threads[t].phase = "chk"
    /\ Set(t, IF ~Has(td.ParentCollection, td.EndpointCollection[Head(threads[t].prog).l])
              THEN [threads[t] EXCEPT !.phase = "wr"]
              ELSE Advance(t))
    /\ UNCHANGED <<td, file, written, manager, crashed, ops, ticks, history, stopLog>>

\* a root entry stored under the next ID that GetEndpointID would issue
SmartRootStoreAtCounter(t, op) ==
    [t EXCEPT !.ParentCollection = Put(@, t.EndpointCounter, <<>>)]

SmartRootStore(t, op) ==
    [t EXCEPT !.ParentCollection = Put(@, t.EndpointCollection[op.l], <<>>)]

SmartRootWrite(t) ==
    /\ At(t, "pcRoot")
    /\ threads[t].phase = "wr"
    /\ td' = SmartRootStore(td, Head(threads[t].prog))
    /\ Set(t, Advance(t))
    /\ UNCHANGED <<file, written, manager, crashed, ops, ticks, history, stopLog>>

\* TopologyProcessor.ProcessMetric called on the processor itself: the call
ProcessBegin(t, proc, m) ==
    /\ ~crashed
    /\ threads[t].pc = "idle"
    /\ threads[t].proc \in {"none", proc}
    /\ ops < MaxOps
    /\ ops' = ops + 1
    /\ Set(t, [threads[t] EXCEPT !.pc = IF Program(proc, m) = <<>> THEN "after" ELSE "run",
                                 !.role = "direct", !.prog = Program(proc, m),
                                 !.proc = proc, !.m = m, !.pre = td])
    /\ UNCHANGED <<td, file, written, manager, crashed, ticks, history, stopLog>>

\* ... and its return
ProcessReturn(t) ==
    /\ ~crashed
    /\ threads[t].pc = "after"
    /\ threads[t].role = "direct"
    /\ Set(t, [Idle EXCEPT !.proc = threads[t].proc,
                           !.last = [m |-> threads[t].m, post |-> td,
                                     n |-> IF threads[t].last.m = threads[t].m
                                           THEN threads[t].last.n + 1 ELSE 1]])
    /\ UNCHANGED <<td, file, written, manager, crashed, ops, ticks, history, stopLog>>

\* afterCount (no lock), then dataAfter.HasChanges(), and the return
CountAfter(t) ==
    /\ ~crashed
    /\ threads[t].pc = "after"
    /\ policy = "changeBased" => RLockable(t)
    /\ Set(t, Idle)
    /\ UNCHANGED <<td, file, written, manager, crashed, ops, ticks, history, stopLog>>

(***************************************************************************)
(* SaveToFile, for every caller: ForceSave, Stop and the loop.             *)
(***************************************************************************)
\* data, err := td.ToJSON(): the snapshot is taken under the read lock
SaveToJSON(t) ==
    /\ ~crashed
    /\ threads[t].pc = "toJSON"
    /\ RLockable(t)
    /\ Set(t, [threads[t] EXCEPT !.pc = "write", !.snap = ToJSON(td), !.saves = @ + 1,
                                 !.pre = Structure(td)])
    /\ UNCHANGED <<td, file, written, manager, crashed, ops, ticks, history, stopLog>>

\* whether SaveToFile calls MarkSaved after ioutil.WriteFile returned err
ClearsFlagAlways(err) == TRUE

ClearsFlag(err) == ~err

\* a loop that gives up when its save failed
ReturnedLoopExitsOnError(t, err) ==
    CASE threads[t].role = "loop" ->
             IF err THEN Idle
             ELSE [Idle EXCEPT !.role = "loop",
                               !.pc = IF policy = "changeBased" THEN "markAgain"
                                      ELSE "log"]
      [] OTHER -> Idle

\* where the caller of SaveToFile goes when SaveToFile returned
Returned(t, err) ==
    CASE threads[t].role = "loop" ->
             [Idle EXCEPT !.role = "loop",
                          !.pc = IF err THEN "select"
                                 ELSE IF policy = "changeBased" THEN "markAgain"
                                 ELSE "log"]
      [] OTHER -> Idle

\* SaveToFile returns: ForceSave returns with it, Stop logs, unlocks and returns
SaveReturns(t, err) ==
    /\ Set(t, Returned(t, err))
    /\ tmMutex' = IF threads[t].role = "stop" THEN "free" ELSE tmMutex
    /\ stopLog' = IF threads[t].role = "stop"
                  THEN stopLog \cup {[ran |-> TRUE, saves |-> threads[t].saves,
                                      running |-> isRunning, err |-> err]}
                  ELSE stopLog

\* ioutil.WriteFile succeeded: the file holds the snapshot
WriteOK(t) ==
    /\ ~crashed
    /\ threads[t].pc = "write"
    /\ file' = [file EXCEPT ![threads[t].name] = threads[t].snap]
    /\ written' = [written EXCEPT ![threads[t].name] = threads[t].pre]
    /\ Set(t, [threads[t] EXCEPT !.pc = "markSaved", !.snap = NoFile,
                                 !.pre = NewTopologyData])
    /\ UNCHANGED <<td, manager, crashed, ops, ticks, history, stopLog>>

\* ioutil.WriteFile failed: the file is as before (it could not be opened) or
\* is cut short (the write failed part-way); SaveToFile returns the error
WriteFail(t) ==
    /\ ~crashed
    /\ threads[t].pc = "write"
    /\ fails < MaxFails
    /\ fails' = fails + 1
    /\ \E left \in {file[threads[t].name], Malformed} :
          /\ file' = [file EXCEPT ![threads[t].name] = left]
          /\ written' = IF left = Malformed
                        THEN [written EXCEPT ![threads[t].name] = NewTopologyData]
                        ELSE written
    /\ td' = IF ClearsFlag(TRUE) THEN MarkSaved(td) ELSE td
    /\ SaveReturns(t, TRUE)
    /\ UNCHANGED <<isRunning, policy, filename, crashed, ops, ticks,
                   svcIssued, epIssued, svcReturned, epReturned>>

\* td.MarkSaved() after a successful write, under the write lock
SaveMarkSaved(t) ==
    /\ ~crashed
    /\ threads[t].pc = "markSaved"
    /\ Lockable(t)
    /\ td' = IF ClearsFlag(FALSE) THEN MarkSaved(td) ELSE td
    /\ SaveReturns(t, FALSE)
    /\ UNCHANGED <<file, written, isRunning, policy, filename, crashed, ops, ticks, history>>

\* TopologyManager.ForceSave
ForceSave(t) ==
    /\ ~crashed
    /\ threads[t].pc = "idle"
    /\ t \in Callers
    /\ ops < MaxOps
    /\ ops' = ops + 1
    /\ Set(t, [Idle EXCEPT !.pc = "toJSON", !.role = "force", !.name = filename])
    /\ UNCHANGED <<td, file, written, manager, crashed, ticks, history, stopLog>>

\* TopologyManager.SetFilename: tm.filename = filename under the manager lock
SetFilename(t, f) ==
    /\ ~crashed
    /\ threads[t].pc = "idle"
    /\ t \in Callers
    /\ tmMutex = "free"
    /\ ops < MaxOps
    /\ ops' = ops + 1
    /\ filename' = f
    /\ UNCHANGED <<td, file, written, isRunning, tmMutex, policy, threads, crashed, ticks,
                   history, stopLog>>

(***************************************************************************)
(* TopologyManager.Start                                                   *)
(***************************************************************************)
\* Start goes on to load and launch whatever isRunning says
StartProceedsAlways(running) == TRUE

\* if tm.isRunning { return nil }
StartProceeds(running) == ~running

StartWhileRunning(t) ==
    /\ ~crashed
    /\ threads[t].pc = "idle"
    /\ t \in Callers
    /\ tmMutex = "free"
    /\ ~StartProceeds(isRunning)
    /\ ops < MaxOps
    /\ ops' = ops + 1
    /\ UNCHANGED <<td, file, written, manager, threads, crashed, ticks, history, stopLog>>

StartBegin(t) ==
    /\ ~crashed
    /\ threads[t].pc = "idle"
    /\ t \in Callers
    /\ tmMutex = "free"
    /\ StartProceeds(isRunning)
    /\ ops < MaxOps
    /\ ops' = ops + 1
    /\ tmMutex' = t
    /\ Set(t, [Idle EXCEPT !.pc = "load", !.role = "start"])
    /\ UNCHANGED <<td, file, written, isRunning, policy, filename, crashed, ticks, history, stopLog>>

\* tm.isRunning = true; go tm.changeBasedSave() / go tm.periodicSave(); unlock
Launch(t) ==
    /\ \E l \in Loops : threads[l].pc = "idle"
    /\ LET l == CHOOSE x \in Loops : threads[x].pc = "idle"
       IN  threads' = [threads EXCEPT ![t] = Idle,
                                      ![l] = [Idle EXCEPT !.pc = "select", !.role = "loop"]]
    /\ isRunning' = TRUE
    /\ tmMutex' = "free"

\* LoadFromFile: os.Stat says the file does not exist
StartNoFile(t) ==
    /\ ~crashed
    /\ threads[t].pc = "load"
    /\ file[filename] = NoFile
    /\ Launch(t)
    /\ UNCHANGED <<td, file, written, policy, filename, crashed, ops, ticks, history, stopLog>>

\* LoadFromFile: ioutil.ReadFile returns the bytes of the file
StartReadFile(t) ==
    /\ ~crashed
    /\ threads[t].pc = "load"
    /\ file[filename] /= NoFile
    /\ Set(t, [threads[t] EXCEPT !.pc = "fromJSON", !.snap = file[filename]])
    /\ UNCHANGED <<td, file, written, manager, crashed, ops, ticks, history, stopLog>>

\* td.FromJSON(data); a document that does not parse is rejected before
\* anything is stored, one with values of the wrong type is stored but for
\* those values; Start logs the error and goes on
LoadFromFile(t, data) ==
    IF data = Malformed THEN t ELSE FromJSONSkipping(t, data, TypeErrors(data))

StartFromJSON(t) ==
    /\ ~crashed
    /\ threads[t].pc = "fromJSON"
    /\ Lockable(t)
    /\ td' = LoadFromFile(td, threads[t].snap)
    /\ Launch(t)
    /\ UNCHANGED <<file, written, policy, filename, crashed, ops, ticks, history, stopLog>>

(***************************************************************************)
(* TopologyProcessor.LoadFromFile called on the processor itself.  The     *)
(* caller sees what it returns: "loaded" stands for nil, "loadFailed" for  *)
(* an error.                                                               *)
(***************************************************************************)
\* a json.Unmarshal that accepts every document
UnmarshalAccepts(data) == FALSE

\* json.Unmarshal returns an error: the bytes are no JSON document, or a
\* value of the document is of the wrong type
UnmarshalFails(data) == data = Malformed \/ TypeErrors(data) /= {}

\* os.Stat says the file does not exist: return nil
LoadNoFile(t, f) ==
    /\ ~crashed
    /\ threads[t].pc = "idle"
    /\ t \in Callers
    /\ file[f] = NoFile
    /\ ops < MaxOps
    /\ ops' = ops + 1
    /\ Set(t, [threads[t] EXCEPT !.pc = "loaded", !.role = "load", !.name = f,
                                 !.snap = NoFile, !.pre = td])
    /\ UNCHANGED <<td, file, written, manager, crashed, ticks, history, stopLog>>

\* ioutil.ReadFile returns the bytes of the file
LoadReadFile(t, f) ==
    /\ ~crashed
    /\ threads[t].pc = "idle"
    /\ t \in Callers
    /\ file[f] /= NoFile
    /\ ops < MaxOps
    /\ ops' = ops + 1
    /\ Set(t, [threads[t] EXCEPT !.pc = "unmarshal", !.role = "load", !.name = f,
                                 !.snap = file[f], !.pre = td])
    /\ UNCHANGED <<td, file, written, manager, crashed, ticks, history, stopLog>>

\* return td.FromJSON(data)
LoadUnmarshal(t) ==
    /\ ~crashed
    /\ threads[t].pc = "unmarshal"
    /\ Lockable(t)
    /\ td' = LoadFromFile(td, threads[t].snap)
    /\ Set(t, [threads[t] EXCEPT !.pc = IF UnmarshalFails(threads[t].snap)
                                        THEN "loadFailed" ELSE "loaded"])
    /\ UNCHANGED <<file, written, manager, crashed, ops, ticks, history, stopLog>>

\* The file at a path is rewritten from outside the process (by hand, or by
\* a build with other field types): the document that SaveToFile wrote, with
\* values of the wrong type in the fields `bad`.
BadFields == {{"endpoint_counter"}, {"service_reverse", "endpoint_reverse"}}

RewriteFile(f, bad) ==
    /\ ~crashed
    /\ file[f] /= NoFile /\ file[f] /= Malformed /\ TypeErrors(file[f]) = {}
    /\ file' = [file EXCEPT ![f] = Mistyped(file[f], bad)]
    /\ UNCHANGED <<td, written, manager, threads, crashed, ops, ticks, history, stopLog>>

\* the caller goes on
LoadReturn(t) ==
    /\ ~crashed
    /\ threads[t].pc \in {"loaded", "loadFailed"}
    /\ Set(t, [Idle EXCEPT !.proc = threads[t].proc])
    /\ UNCHANGED <<td, file, written, manager, crashed, ops, ticks, history, stopLog>>

(***************************************************************************)
(* TopologyManager.Stop                                                    *)
(***************************************************************************)
StopWhileStopped(t) ==
    /\ ~crashed
    /\ threads[t].pc = "idle"
    /\ t \in Callers
    /\ tmMutex = "free"
    /\ ~isRunning
    /\ ops < MaxOps
    /\ ops' = ops + 1
    /\ stopLog' = stopLog \cup {[ran |-> FALSE, saves |-> 0,
                                 running |-> isRunning, err |-> FALSE]}
    /\ UNCHANGED <<td, file, written, manager, threads, crashed, ticks, history>>

StopBegin(t) ==
    /\ ~crashed
    /\ threads[t].pc = "idle"
    /\ t \in Callers
    /\ tmMutex = "free"
    /\ isRunning
    /\ ops < MaxOps
    /\ ops' = ops + 1
    /\ tmMutex' = t
    /\ Set(t, [Idle EXCEPT !.pc = "stopSend", !.role = "stop"])
    /\ UNCHANGED <<td, file, written, isRunning, policy, filename, crashed, ticks, history, stopLog>>

\* the loop after "case <-tm.stopChan: return"
LoopKeepsRunning(l) == l

LoopAfterStop(l) == Idle

\* whether Stop goes on to SaveToFile
FinalSaveIfChanged(t) == t.hasChanges

FinalSave(t) == TRUE

\* tm.stopChan <- true meets the loop's "case <-tm.stopChan", the loop
\* returns; then tm.isRunning = false
StopSend(t) ==
    /\ ~crashed
    /\ threads[t].pc = "stopSend"
    /\ \E l \in Loops :
         /\ threads[l].pc = "select"
         /\ IF FinalSave(td)
            THEN /\ threads' = [threads EXCEPT ![l] = LoopAfterStop(threads[l]),
                                               ![t] = [@ EXCEPT !.pc = "toJSON",
                                                                !.name = filename]]
                 /\ UNCHANGED <<tmMutex, stopLog>>
            ELSE /\ threads' = [threads EXCEPT ![l] = LoopAfterStop(threads[l]),
                                               ![t] = Idle]
                 /\ tmMutex' = "free"
                 /\ stopLog' = stopLog \cup {[ran |-> TRUE, saves |-> 0,
                                              running |-> FALSE, err |-> FALSE]}
    /\ isRunning' = FALSE
    /\ UNCHANGED <<td, file, written, policy, filename, crashed, ops, ticks, history>>

(***************************************************************************)
(* The background loop: periodicSave / changeBasedSave                     *)
(***************************************************************************)
\* case <-ticker.C of periodicSave
PeriodicTick(l) ==
    /\ ~crashed
    /\ policy = "periodic"
    /\ threads[l].pc = "select"
    /\ ticks < MaxTicks
    /\ ticks' = ticks + 1
    /\ Set(l, [threads[l] EXCEPT !.pc = "counts"])
    /\ UNCHANGED <<td, file, written, manager, crashed, ops, history, stopLog>>

\* whether changeBasedSave saves on a tick
SavesOnEveryTick(t) == TRUE

SavesOnTick(t) == t.hasChanges

\* case <-ticker.C of changeBasedSave, with data.HasChanges() true
ChangeTick(l) ==
    /\ ~crashed
    /\ policy = "changeBased"
    /\ threads[l].pc = "select"
    /\ RLockable(l)
    /\ SavesOnTick(td)
    /\ ticks < MaxTicks
    /\ ticks' = ticks + 1
    /\ Set(l, [threads[l] EXCEPT !.pc = "counts"])
    /\ UNCHANGED <<td, file, written, manager, crashed, ops, history, stopLog>>

\* case <-ticker.C of changeBasedSave, with data.HasChanges() false
ChangeTickClean(l) ==
    /\ ~crashed
    /\ policy = "changeBased"
    /\ threads[l].pc = "select"
    /\ RLockable(l)
    /\ ~SavesOnTick(td)
    /\ ticks < MaxTicks
    /\ ticks' = ticks + 1
    /\ UNCHANGED <<td, file, written, manager, threads, crashed, ops, history, stopLog>>

\* case <-ticker.C of changeBasedSave for every tick after the MaxTicks
\* ticks that are counted: the ticker never stops firing
ChangeTickOn(l) ==
    /\ ~crashed
    /\ policy = "changeBased"
    /\ threads[l].pc = "select"
    /\ RLockable(l)
    /\ ticks = MaxTicks
    /\ threads' = IF SavesOnTick(td)
                  THEN [threads EXCEPT ![l] = [threads[l] EXCEPT !.pc = "counts"]]
                  ELSE threads
    /\ UNCHANGED <<td, file, written, manager, crashed, ops, ticks, history, stopLog>>

\* the len(data.X) reads for the log line, no lock
LoopCounts(l) ==
    /\ ~crashed
    /\ threads[l].pc = "counts"
    /\ Set(l, [threads[l] EXCEPT !.pc = "toJSON", !.name = filename])
    /\ UNCHANGED <<td, file, written, manager, crashed, ops, ticks, history, stopLog>>

\* data.MarkSaved() of changeBasedSave, after SaveToFile returned nil
LoopMarkAgain(l) ==
    /\ ~crashed
    /\ threads[l].pc = "markAgain"
    /\ Lockable(l)
    /\ td' = MarkSaved(td)
    /\ Set(l, [threads[l] EXCEPT !.pc = "select"])
    /\ UNCHANGED <<file, written, manager, crashed, ops, ticks, history, stopLog>>

\* len(data.EndpointMapping) in the log line of periodicSave, no lock
LoopLog(l) ==
    /\ ~crashed
    /\ threads[l].pc = "log"
    /\ Set(l, [threads[l] EXCEPT !.pc = "select"])
    /\ UNCHANGED <<td, file, written, manager, crashed, ops, ticks, history, stopLog>>

(***************************************************************************)
(* GetTopologyData and the caller that reports from what it returns.       *)
(***************************************************************************)
\* what the holder of a snapshot sees in it
Deref(h) == IF h.ref = "live" THEN td ELSE h.val

TakeSnapshot(t) ==
    /\ ~crashed
    /\ threads[t].pc = "idle"
    /\ t \in Callers
    /\ ops < MaxOps
    /\ ops' = ops + 1
    /\ Set(t, [Idle EXCEPT !.pc = "report", !.role = "reader",
                           !.held = GetTopologyData, !.pre = td])
    /\ UNCHANGED <<td, file, written, manager, crashed, ticks, history, stopLog>>

\* the holder filters its snapshot: delete(data.ServiceCollection, name)
SnapshotWrite(t, name) ==
    /\ ~crashed
    /\ threads[t].pc = "report"
    /\ Has(Deref(threads[t].held).ServiceCollection, name)
    /\ LET h == threads[t].held
           without(m) == [n \in DOMAIN m \ {name} |-> m[n]]
       IN  IF h.ref = "live"
           THEN /\ td' = [td EXCEPT !.ServiceCollection = without(@)]
                /\ UNCHANGED threads
           ELSE /\ Set(t, [threads[t] EXCEPT
                             !.held.val.ServiceCollection = without(@)])
                /\ UNCHANGED td
    /\ UNCHANGED <<file, written, manager, crashed, ops, ticks, history, stopLog>>

\* the holder is done with its snapshot
DropSnapshot(t) ==
    /\ ~crashed
    /\ threads[t].pc = "report"
    /\ Set(t, Idle)
    /\ UNCHANGED <<td, file, written, manager, crashed, ops, ticks, history, stopLog>>

(***************************************************************************)
(* The process ends (main calls os.Exit after Stop; or it is killed while  *)
(* no call is under way) and a new process is started: GetInstance builds  *)
(* a manager with a freshly constructed store, the files stay.             *)
(***************************************************************************)
Restart ==
    /\ ~crashed
    /\ \A t \in Threads : threads[t].pc \in {"idle", "select"}
    /\ td' = NewTopologyData
    /\ threads' = [t \in Threads |-> Idle]
    /\ isRunning' = FALSE
    /\ tmMutex' = "free"
    /\ filename' = "connection.json"
    /\ UNCHANGED <<file, written, policy, crashed, ops, ticks, history, stopLog>>

(***************************************************************************)
(* Accesses to the five shared structures.  Every store method takes       *)
(* td.mutex (an access with lock = TRUE); the processor's smart paths and  *)
(* the len() reads of the manager go to the maps directly.                 *)
(***************************************************************************)
Structures == {"ServiceCollection", "EndpointCollection", "EndpointMapping",
               "ConnectionGraph", "ParentCollection"}

Acc(s, kind, lock) == [s |-> s, kind |-> kind, lock |-> lock]

\* the accesses of the step a thread takes next
NextAccesses(t) ==
    LET th == threads[t]
        op == Head(th.prog)
        counts == {Acc("ServiceCollection", "len", FALSE),
                   Acc("EndpointCollection", "len", FALSE)}
    IN  CASE th.pc \in {"before", "after"} -> counts
          [] th.pc = "counts" ->
               IF policy = "periodic" THEN counts
               ELSE counts \cup {Acc("ConnectionGraph", "len", FALSE),
                                 Acc("ParentCollection", "len", FALSE)}
          [] th.pc = "log" -> {Acc("EndpointMapping", "len", FALSE)}
          [] th.pc = "toJSON" -> {Acc(s, "r", TRUE) : s \in Structures}
          [] th.pc = "fromJSON" /\ th.snap /= Malformed ->
               {Acc(s, "w", TRUE) : s \in Structures}
          [] th.pc = "run" /\ op.k = "svc" ->
               {Acc("ServiceCollection",
                    IF Has(td.ServiceCollection, op.n) THEN "r" ELSE "w", TRUE)}
          [] th.pc = "run" /\ op.k = "ep" ->
               {Acc("EndpointCollection",
                    IF Has(td.EndpointCollection, op.n) THEN "r" ELSE "w", TRUE)}
          [] th.pc = "run" /\ op.k = "addEM" -> {Acc("EndpointMapping", "w", TRUE)}
          [] th.pc = "run" /\ op.k = "addCG" -> {Acc("ConnectionGraph", "w", TRUE)}
          [] th.pc = "run" /\ op.k = "addPC" -> {Acc("ParentCollection", "w", TRUE)}
          [] th.pc = "run" /\ op.k \in {"cgOuter", "cgInner", "cgLink"} ->
               {Acc("ConnectionGraph", IF th.phase = "wr" THEN "w" ELSE "r", FALSE)}
          [] th.pc = "run" /\ op.k = "pcRoot" ->
               {Acc("ParentCollection", IF th.phase = "wr" THEN "w" ELSE "r", FALSE)}
          [] OTHER -> {}

\* two goroutines are about to touch the same structure, one of them writes,
\* and the lock does not order them
Races(a, b) ==
    /\ a.s = b.s
    /\ a.kind = "w" \/ b.kind = "w"
    /\ ~a.lock \/ ~b.lock

RacingPairs ==
    {p \in NextAccesses("c1") \X NextAccesses("c2") : Races(p[1], p[2])}
    \cup UNION {UNION {{p \in NextAccesses(c) \X NextAccesses(l) : Races(p[1], p[2])}
                       : l \in Loops} : c \in Callers}

\* The runtime's map code aborts the process when it sees a map written
\* while another goroutine reads or writes it by key (len() is not checked).
Crash ==
    /\ ~crashed
    /\ \E p \in RacingPairs : p[1].kind /= "len" /\ p[2].kind /= "len"
    /\ crashed' = TRUE
    /\ UNCHANGED <<td, file, written, manager, threads, ops, ticks, history, stopLog>>

(***************************************************************************)
(* Specification of the manager's life cycle: callers register services,   *)
(* force saves, start and stop the manager, while the loop ticks.          *)
(***************************************************************************)
RegisterOnly(service) == Metric(CONTROLLER, service, <<>>, <<>>, <<>>, <<>>)

LifeMetrics == {RegisterOnly("A"), RegisterOnly("B")}

SaveSteps(t) == SaveToJSON(t) \/ WriteOK(t) \/ WriteFail(t) \/ SaveMarkSaved(t)

LoopSteps(l) ==
    \/ PeriodicTick(l) \/ ChangeTick(l) \/ ChangeTickClean(l)
    \/ LoopCounts(l) \/ LoopMarkAgain(l) \/ LoopLog(l)

LifeSteps(t) ==
    \/ StartWhileRunning(t) \/ StartBegin(t) \/ StartNoFile(t)
    \/ StartReadFile(t) \/ StartFromJSON(t)
    \/ StopWhileStopped(t) \/ StopBegin(t) \/ StopSend(t)
    \/ ForceSave(t)

Next ==
    \/ \E t \in Callers :
         \/ \E m \in LifeMetrics : Submit(t, m)
         \/ CountBefore(t) \/ CallGetServiceID(t) \/ CountAfter(t)
         \/ LifeSteps(t)
    \/ \E t \in Threads : SaveSteps(t)
    \/ \E l \in Loops : LoopSteps(l)

Spec == Init /\ [][Next]_vars

(***************************************************************************)
(* Specification of the ID calls alone: concurrent ProcessMetric calls of  *)
(* CONTROLLER metrics, whose store calls are GetServiceID, GetEndpointID   *)
(* and AddToEndpointMapping.  Nothing is saved or loaded.                  *)
(***************************************************************************)
IDMetrics == {Metric(CONTROLLER, "A", <<"B">>, <<>>, <<"l1">>, <<"l2">>),
              Metric(CONTROLLER, "B", <<"C">>, <<>>, <<"l2">>, <<"l3">>)}

NextIDs ==
    \E t \in Callers :
       \/ \E m \in IDMetrics : Submit(t, m)
       \/ CountBefore(t) \/ CallGetServiceID(t) \/ CallGetEndpointID(t)
       \/ CallAddToEndpointMapping(t) \/ CountAfter(t)

SpecIDs == Init /\ [][NextIDs]_vars

(***************************************************************************)
(* Specification of the smart paths: concurrent ProcessMetric calls of     *)
(* HTTP metrics with partial topology, and ForceSave.                      *)
(***************************************************************************)
SmartMetrics == {Metric(HTTP, "B", <<"A">>, <<>>, <<"l1">>, <<>>),
                 Metric(HTTP, "A", <<>>, <<"B">>, <<>>, <<"l1">>)}

NextSmart ==
    \/ \E t \in Callers :
         \/ \E m \in SmartMetrics : Submit(t, m)
         \/ CountBefore(t) \/ CallGetServiceID(t) \/ CallGetEndpointID(t)
         \/ SmartGraphCheck(t) \/ SmartGraphWrite(t)
         \/ SmartRootCheck(t) \/ SmartRootWrite(t)
         \/ CountAfter(t)
         \/ ForceSave(t)
         \/ SaveSteps(t)
    \/ Crash

SpecSmart == Init /\ [][NextSmart]_vars

(***************************************************************************)
(* Specification of shutdown under fair scheduling: the life cycle with    *)
(* SetFilename, where every goroutine that can take a step of a call it    *)
(* is in eventually takes it, a file write ends (well or with an error),   *)
(* and a select that finds the stop case ready again and again eventually  *)
(* takes it (Go's select picks among the ready cases at random).  Whether  *)
(* callers make further calls, and whether the ticker fires, is left open. *)
(***************************************************************************)
LiveMetrics == {RegisterOnly("A")}

NextLive ==
    \/ \E t \in Callers :
         \/ \E m \in LiveMetrics : Submit(t, m)
         \/ CountBefore(t) \/ CallGetServiceID(t) \/ CountAfter(t)
         \/ LifeSteps(t)
         \/ \E f \in Filenames : SetFilename(t, f)
    \/ \E t \in Threads : SaveSteps(t)
    \/ \E l \in Loops : LoopSteps(l)

Fairness ==
    /\ \A t \in Threads : WF_vars(SaveSteps(t))
    /\ \A t \in Callers : SF_vars(StopSend(t))
    /\ \A l \in Loops : WF_vars(LoopCounts(l) \/ LoopMarkAgain(l) \/ LoopLog(l))

SpecLive == Init /\ [][NextLive]_vars /\ Fairness

(***************************************************************************)
(* Specification of ingestion beside a stalled disk: the same steps, where *)
(* only the goroutines inside ProcessMetric are scheduled fairly.  A file  *)
(* write, a file read, the loop and the other calls may stop for ever at   *)
(* any point.                                                              *)
(***************************************************************************)
IngestSteps(t) == CountBefore(t) \/ CallGetServiceID(t) \/ CountAfter(t)

SpecStall == Init /\ [][NextLive]_vars /\ \A t \in Callers : WF_vars(IngestSteps(t))

(***************************************************************************)
(* Specification of a store that is filled, saved and loaded: CONTROLLER   *)
(* metrics that map the service "A" to one upstream link each, beside the  *)
(* life cycle of the manager (Start loads the file, Stop and ForceSave     *)
(* save, the loop ticks).                                                  *)
(***************************************************************************)
GrowMetrics == {Metric(CONTROLLER, "A", <<>>, <<>>, <<"l1">>, <<>>),
                Metric(CONTROLLER, "A", <<>>, <<>>, <<"l2">>, <<>>)}

NextGrow ==
    \/ \E t \in Callers :
         \/ \E m \in GrowMetrics : Submit(t, m)
         \/ CountBefore(t) \/ CallGetServiceID(t) \/ CallGetEndpointID(t)
         \/ CallAddToEndpointMapping(t) \/ CountAfter(t)
         \/ LifeSteps(t)
    \/ \E t \in Threads : SaveSteps(t)
    \/ \E l \in Loops : LoopSteps(l)

SpecGrow == Init /\ [][NextGrow]_vars

(***************************************************************************)
(* Specifications of the processor alone: one goroutine calls              *)
(* TopologyProcessor.ProcessMetric with one event after the other, each    *)
(* call running to its return before the next begins.                      *)
(***************************************************************************)
NextEvents(events) ==
    \/ \E proc \in Processors, m \in events : ProcessBegin("c1", proc, m)
    \/ CallGetServiceID("c1") \/ CallGetEndpointID("c1")
    \/ CallAddToEndpointMapping("c1") \/ CallAddToConnectionGraph("c1")
    \/ CallAddToParentCollection("c1")
    \/ SmartGraphCheck("c1") \/ SmartGraphWrite("c1")
    \/ SmartRootCheck("c1") \/ SmartRootWrite("c1")
    \/ ProcessReturn("c1")

\* complete events of both types, and one partial event before or between
TwiceMetrics ==
    {Metric(CONTROLLER, "A", <<"B">>, <<"C">>, <<"l1">>, <<"l2">>),
     Metric(HTTP, "A", <<"B">>, <<"C">>, <<"l1">>, <<"l2">>),
     Metric(HTTP, "B", <<"A", "C">>, <<"A">>, <<"l2", "l1">>, <<"l1", "l3">>),
     Metric(HTTP, "B", <<"A">>, <<>>, <<"l1">>, <<>>)}

SpecTwice == Init /\ [][NextEvents(TwiceMetrics)]_vars

(***************************************************************************)
(* Specification of the snapshot file: one goroutine fills the store with  *)
(* events, saves it with ForceSave (the write may fail), starts the        *)
(* manager, which loads the file; the process may end and start again with *)
(* a fresh store.  The ticker does not fire.                               *)
(***************************************************************************)
NextFile ==
    \/ NextEvents(TwiceMetrics)
    \/ ForceSave("c1") \/ SaveSteps("c1")
    \/ StartWhileRunning("c1") \/ StartBegin("c1") \/ StartNoFile("c1")
    \/ StartReadFile("c1") \/ StartFromJSON("c1")
    \/ Restart

SpecFile == Init /\ [][NextFile]_vars

(***************************************************************************)
(* Specification of reporting: callers take the store with                 *)
(* GetTopologyData, read it and filter it, beside ProcessMetric calls.     *)
(***************************************************************************)
NextReport ==
    \E t \in Callers :
       \/ \E m \in LifeMetrics : Submit(t, m)
       \/ CountBefore(t) \/ CallGetServiceID(t) \/ CountAfter(t)
       \/ TakeSnapshot(t)
       \/ \E name \in {"A", "B"} : SnapshotWrite(t, name)
       \/ DropSnapshot(t)

SpecReport == Init /\ [][NextReport]_vars

\* events that reach AddToConnectionGraph with service and link lists of
\* equal and of unequal lengths that share names, and one partial event
GraphMetrics ==
    {Metric(HTTP, "A", <<"A", "B">>, <<"C", "D">>, <<>>, <<"l1", "l2">>),
     Metric(HTTP, "A", <<"A">>, <<"C", "D">>, <<>>, <<"l2">>),
     Metric(HTTP, "B", <<"B">>, <<"D">>, <<>>, <<"l1", "l2">>),
     Metric(CONTROLLER, "A", <<"C">>, <<"A", "B">>, <<"l1">>, <<"l2", "l1">>),
     Metric(HTTP, "B", <<"A">>, <<>>, <<"l1">>, <<>>)}

SpecGraph == Init /\ [][NextEvents(GraphMetrics)]_vars

(***************************************************************************)
(* Specification of partial events: one goroutine submits events that      *)
(* carry upstream services and upstream links only, of both types, on the  *)
(* empty store and after complete events that have filled the graph and    *)
(* given the links parents.                                                *)
(***************************************************************************)
PartialMetrics ==
    {Metric(HTTP, "B", <<"A">>, <<>>, <<"l1">>, <<>>),
     Metric(CONTROLLER, "B", <<"A">>, <<>>, <<"l1">>, <<>>),
     Metric(HTTP, "B", <<"A", "C">>, <<>>, <<"l1", "l2">>, <<>>),
     Metric(HTTP, "A", <<"B">>, <<"C">>, <<"l2">>, <<"l1">>),
     Metric(CONTROLLER, "A", <<"B">>, <<"C">>, <<"l2">>, <<"l1">>)}

SpecPartial == Init /\ [][NextEvents(PartialMetrics)]_vars

(***************************************************************************)
(* Specification of downstream-only events: one goroutine submits events   *)
(* with downstream services and downstream links and no upstream service,  *)
(* of both types, with lists of equal and of different lengths, with an    *)
(* empty name in a list, with and without upstream links, and one complete *)
(* event.                                                                  *)
(***************************************************************************)
DownstreamMetrics ==
    {Metric(HTTP, "A", <<>>, <<"C", "D">>, <<>>, <<"l1", "l2">>),
     Metric(HTTP, "A", <<>>, <<"", "C">>, <<>>, <<"l1", "l2">>),
     Metric(HTTP, "B", <<>>, <<"C", "D">>, <<"l2">>, <<"l1">>),
     Metric(CONTROLLER, "A", <<>>, <<"C">>, <<"l2">>, <<"l1">>),
     Metric(HTTP, "A", <<"B">>, <<"C">>, <<>>, <<"l2">>)}

SpecDownstream == Init /\ [][NextEvents(DownstreamMetrics)]_vars

(***************************************************************************)
(* Specification of link parentage: one goroutine submits events of both   *)
(* types with links on both sides (complete and partial, so that a link    *)
(* gets parents from more than one event) and with links on one side only. *)
(***************************************************************************)
ParentMetrics ==
    {Metric(HTTP, "A", <<"B">>, <<"C">>, <<"l1">>, <<"l2", "l3">>),
     Metric(HTTP, "A", <<>>, <<>>, <<"l2", "l1">>, <<"l3">>),
     Metric(CONTROLLER, "A", <<>>, <<>>, <<"l1", "l2">>, <<"l3">>),
     Metric(HTTP, "B", <<"A">>, <<>>, <<"l3", "l1">>, <<>>),
     Metric(HTTP, "B", <<>>, <<>>, <<>>, <<"l3">>),
     Metric(CONTROLLER, "B", <<>>, <<>>, <<"l1">>, <<>>)}

SpecParents == Init /\ [][NextEvents(ParentMetrics)]_vars

(***************************************************************************)
(* Specification of the events a processor may skip: one goroutine submits *)
(* events without Topology, with a Topology of four empty lists, of a type *)
(* that is neither CONTROLLER nor HTTP, and complete and partial events of *)
(* both types, which fill the store.                                       *)
(***************************************************************************)
SkipMetrics ==
    {NoTopology(CONTROLLER, "D"),
     NoTopology(HTTP, "D"),
     Metric(CONTROLLER, "D", <<>>, <<>>, <<>>, <<>>),
     Metric(UNSPECIFIED, "D", <<"B">>, <<"C">>, <<"l1">>, <<"l2">>),
     Metric(HTTP, "A", <<"B">>, <<"C">>, <<"l1">>, <<"l2">>),
     Metric(CONTROLLER, "B", <<"A">>, <<>>, <<"l1">>, <<>>),
     Metric(HTTP, "B", <<"A">>, <<>>, <<"l1">>, <<>>)}

SpecSkip == Init /\ [][NextEvents(SkipMetrics)]_vars

(***************************************************************************)
(* Specification of LoadFromFile: one goroutine fills the store with       *)
(* events, saves it with ForceSave (the write may fail and leave a file    *)
(* that is no JSON document) and calls LoadFromFile with either path; the  *)
(* process may end and start again with a fresh store.                     *)
(***************************************************************************)
LoadMetrics ==
    {Metric(CONTROLLER, "A", <<"B">>, <<"C">>, <<"l1">>, <<"l2">>),
     Metric(HTTP, "B", <<"A">>, <<>>, <<"l1">>, <<>>)}

NextLoad ==
    \/ NextEvents(LoadMetrics)
    \/ ForceSave("c1") \/ SaveSteps("c1")
    \/ \E f \in Filenames : LoadNoFile("c1", f) \/ LoadReadFile("c1", f)
    \/ LoadUnmarshal("c1") \/ LoadReturn("c1")
    \/ Restart

SpecLoad == Init /\ [][NextLoad]_vars

(***************************************************************************)
(* Specification of loading a rewritten file: as SpecLoad, and the file    *)
(* that ForceSave wrote is rewritten from outside with values of the wrong *)
(* type; the goroutine also starts the manager, which loads the file.      *)
(***************************************************************************)
NextRewritten ==
    \/ NextLoad
    \/ \E f \in Filenames, bad \in BadFields : RewriteFile(f, bad)
    \/ StartWhileRunning("c1") \/ StartBegin("c1") \/ StartNoFile("c1")
    \/ StartReadFile("c1") \/ StartFromJSON("c1")

SpecRewritten == Init /\ [][NextRewritten]_vars

(***************************************************************************)
(* Specification of persistence by the loop: one goroutine starts the      *)
(* manager (no file exists) and submits HTTP events, the loop runs beside  *)
(* it and is never                                                         *)
(* stopped.  The ticker fires for ever, every step of a call or of a loop  *)
(* iteration that can be taken is taken, and a write fails MaxFails times  *)
(* at most.                                                                *)
(***************************************************************************)
PersistMetrics == {Metric(HTTP, "B", <<"A">>, <<>>, <<"l1">>, <<>>)}

CallSteps(t) ==
    \/ CountBefore(t) \/ CallGetServiceID(t) \/ CallGetEndpointID(t)
    \/ SmartGraphCheck(t) \/ SmartGraphWrite(t)
    \/ SmartRootCheck(t) \/ SmartRootWrite(t)
    \/ CountAfter(t)

NextPersist ==
    \/ \E m \in PersistMetrics : Submit("c1", m)
    \/ CallSteps("c1")
    \/ StartWhileRunning("c1") \/ StartBegin("c1") \/ StartNoFile("c1")
    \/ \E l \in Loops : SaveSteps(l) \/ LoopSteps(l) \/ ChangeTickOn(l)

FairPersist ==
    /\ WF_vars(CallSteps("c1"))
    /\ WF_vars(StartNoFile("c1"))
    /\ \A l \in Loops : WF_vars(SaveSteps(l) \/ LoopSteps(l) \/ ChangeTickOn(l))

SpecPersist == Init /\ [][NextPersist]_vars /\ FairPersist

(***************************************************************************)
(* Properties.                                                             *)
(***************************************************************************)
Ids(collection) == {collection[n] : n \in DOMAIN collection}

InSync(forward, reverse) ==
    /\ \A n \in DOMAIN forward : Has(reverse, forward[n]) /\ reverse[forward[n]] = n
    /\ \A i \in DOMAIN reverse : Has(forward, reverse[i]) /\ forward[reverse[i]] = i

\* C1: in every reachable state the forward and the reverse map agree, for
\* services and for endpoints: forward[name] = id iff reverse[id] = name.
C1_MapsInSync ==
    /\ InSync(td.ServiceCollection, td.ServiceReverse)
    /\ InSync(td.EndpointCollection, td.EndpointReverse)

\* C2: in every reachable state each counter is strictly greater than every
\* ID present in the maps of its ID space.
C2_CountersAhead ==
    /\ \A i \in Ids(td.ServiceCollection) \cup DOMAIN td.ServiceReverse :
          i < td.ServiceCounter
    /\ \A i \in Ids(td.EndpointCollection) \cup DOMAIN td.EndpointReverse :
          i < td.EndpointCounter

\* the calls of one ID space agree: one ID per name, one name per ID, one
\* created = true per name, and every ID returned is one that was created
Consistent(returned, issued) ==
    /\ \A p, q \in returned : (p[1] = q[1]) <=> (p[2] = q[2])
    /\ \A i, j \in 1..Len(issued) : i /= j => issued[i][1] /= issued[j][1]
    /\ \A p \in returned : \E i \in 1..Len(issued) : issued[i] = <<p[1], p[2]>>

\* C3: over any sequence of GetServiceID calls, concurrent ones included, a
\* name keeps the ID it was given, distinct names have distinct IDs and
\* exactly one call per name returns created = true; the same for
\* GetEndpointID.
C3_IDsStable ==
    /\ Consistent(svcReturned, svcIssued)
    /\ Consistent(epReturned, epIssued)

\* a name was created by one call and looked up again by another, in both
\* ID spaces, with three services known
C3_Witness ==
    /\ Len(svcIssued) = 3
    /\ \E p, q \in svcReturned : p[1] = q[1] /\ p[3] /\ ~q[3]
    /\ \E p, q \in epReturned : p[1] = q[1] /\ p[3] /\ ~q[3]

Increasing(issued) ==
    /\ \A i \in 1..Len(issued) : issued[i][2] >= 1
    /\ \A i, j \in 1..Len(issued) : i < j => issued[i][2] < issued[j][2]

\* C4: every ID handed out with created = true is at least 1 and greater
\* than every ID handed out before it in its ID space.
C4_IssuedIncreasing ==
    /\ Increasing(svcIssued)
    /\ Increasing(epIssued)

\* C5: no two goroutines are ever about to access one of the five shared
\* structures, one of them writing, unless both hold the store's lock.
C5_NoDataRace == RacingPairs = {}

Maps(t) == <<t.ServiceCollection, t.EndpointCollection, t.EndpointMapping,
             t.ConnectionGraph, t.ParentCollection>>

\* C6: every step of an operation that adds an entry to one of the five
\* structures leaves hasChanges = true.
C6_AdditionMarksChanged == [][Maps(td') /= Maps(td) => td'.hasChanges]_vars

Saving(t) == threads[t].pc \in {"toJSON", "write", "markSaved"}

\* C7: a failed write changes nothing in the store, hasChanges included, and
\* its SaveToFile call ends there; hasChanges goes from true to false only
\* in the MarkSaved of a save whose write succeeded.
C7_FailedWriteKeepsFlag ==
    [][/\ fails' /= fails =>
            /\ td' = td
            /\ \A t \in Threads : threads[t].pc = "write" /\ threads'[t].pc /= "write"
                                  => ~(threads'[t].pc \in {"markSaved", "markAgain", "log"})
       /\ td.hasChanges /\ ~td'.hasChanges =>
            \E t \in Threads : /\ threads[t].pc \in {"markSaved", "markAgain"}
                               /\ threads'[t].pc /= threads[t].pc]_vars

\* a write failed and left a cut-short file while changes are pending
C7_Witness == fails > 0 /\ file[filename] = Malformed /\ td.hasChanges

LiveLoops == {l \in Loops : threads[l].pc /= "idle"}

\* C8: at most one background loop exists, and outside the critical
\* sections of Start and Stop a loop exists exactly when isRunning is true.
C8_OneLoop ==
    /\ Cardinality(LiveLoops) <= 1
    /\ tmMutex = "free" => (isRunning <=> Cardinality(LiveLoops) = 1)

\* the manager runs again after a completed Stop, with one loop
C8_Witness ==
    /\ \E r \in stopLog : r.ran
    /\ isRunning /\ tmMutex = "free" /\ Cardinality(LiveLoops) = 1

\* C9: a Stop that finds the manager running makes exactly one SaveToFile
\* call and returns with isRunning false, whether the save failed or not; a
\* Stop that finds it stopped saves nothing and returns at once.
C9_StopSavesOnce ==
    \A r \in stopLog : /\ ~r.running
                       /\ r.saves = IF r.ran THEN 1 ELSE 0

\* a Stop whose final save failed, and a further Stop after it
C9_Witness ==
    /\ \E r \in stopLog : r.ran /\ r.err
    /\ \E r \in stopLog : ~r.ran

StopSaving == \E t \in Callers : threads[t].role = "stop" /\ Saving(t)

\* C10: while Stop, having delivered the stop signal, runs its final
\* SaveToFile, no loop is in a save and none is left to start one.
C10_NoLoopDuringFinalSave == StopSaving => LiveLoops = {}

\* Stop writes its final snapshot after the loop has saved on a tick
C10_Witness ==
    /\ \E t \in Callers : threads[t].role = "stop" /\ threads[t].pc = "write"
    /\ ticks > 0 /\ file[filename] /= NoFile

StopPending(t) == threads[t].role = "stop"

\* C11: under fair scheduling and terminating file writes, a Stop that found
\* the manager running eventually returns, and the background loop that was
\* running eventually exits, whatever the other callers and the ticker do.
C11_StopReturns ==
    \A t \in Callers :
       /\ StopPending(t) ~> ~StopPending(t)
       /\ StopPending(t) ~> (LiveLoops = {})

\* Stop holds the manager lock and waits to send while the loop is in its
\* file write, to a path SetFilename has set, and a ForceSave is under way
C11_Witness ==
    /\ \E t \in Callers : threads[t].pc = "stopSend" /\ tmMutex = t
    /\ \E l \in Loops : threads[l].pc = "write"
    /\ \E t \in Callers : threads[t].role = "force"
    /\ filename /= "connection.json"

FileIO(t) == threads[t].pc \in {"write", "load"}

Ingesting(t) == threads[t].role = "pm"

\* C12: no goroutine holds the store's lock while it reads or writes the
\* file, and a ProcessMetric call that has begun completes under fair
\* scheduling of its own goroutine alone: also when every save (by the loop,
\* by ForceSave, by Stop while it holds the manager lock) stays in its file
\* write for ever.
C12_IngestNeverWaitsForIO ==
    /\ [](\A t \in Threads : FileIO(t) => StoreLockAt(threads[t].pc) = "none")
    /\ \A t \in Callers : Ingesting(t) ~> ~Ingesting(t)

\* a ProcessMetric call registered its service after Stop took its final
\* snapshot and while Stop, holding the manager lock, is still in its write
C12_Witness ==
    \E s, t \in Callers :
       /\ threads[s].role = "stop" /\ threads[s].pc = "write" /\ tmMutex = s
       /\ threads[t].role = "pm" /\ threads[t].pc = "after"
       /\ Has(td.ServiceCollection, "A")
       /\ ~Has(threads[s].snap.service_collection, "A")

\* C13: under the change-based policy the loop leaves its select for a save
\* only on a tick at which hasChanges is true, it reaches the file write only
\* through such a tick, and a tick at which hasChanges is false changes
\* nothing (but the count of ticks).
C13_SavesOnlyWhenChanged ==
    [][policy = "changeBased" =>
         /\ \A l \in Loops :
               /\ threads'[l].pc = "counts" /\ threads[l].pc /= "counts"
                     => threads[l].pc = "select" /\ td.hasChanges /\ ticks' = ticks + 1
               /\ threads'[l].pc = "toJSON" => threads[l].pc \in {"counts", "toJSON"}
               /\ threads'[l].pc = "write" => threads[l].pc \in {"toJSON", "write"}
         /\ ticks' /= ticks /\ ~td.hasChanges
               => UNCHANGED <<td, file, written, manager, threads, crashed, ops, history, stopLog>>]_vars

\* change-based: of two ticks one found nothing to save, and the other found
\* a change and has the loop in its first file write
C13_Witness ==
    /\ policy = "changeBased" /\ ticks = 2 /\ fails = 0
    /\ \A f \in Filenames : file[f] = NoFile
    /\ \E l \in Loops : threads[l].pc = "write"

\* every list of a map of lists in a is there in b with all its IDs
ListsKept(a, b) ==
    \A k \in DOMAIN a : Has(b, k) /\ Range(a[k]) \subseteq Range(b[k])

\* everything the store a holds, the store b holds too
Grows(a, b) ==
    /\ \A n \in DOMAIN a.ServiceCollection :
          Has(b.ServiceCollection, n) /\ b.ServiceCollection[n] = a.ServiceCollection[n]
    /\ \A n \in DOMAIN a.EndpointCollection :
          Has(b.EndpointCollection, n) /\ b.EndpointCollection[n] = a.EndpointCollection[n]
    /\ ListsKept(a.EndpointMapping, b.EndpointMapping)
    /\ \A u \in DOMAIN a.ConnectionGraph :
          /\ Has(b.ConnectionGraph, u)
          /\ ListsKept(a.ConnectionGraph[u], b.ConnectionGraph[u])
    /\ ListsKept(a.ParentCollection, b.ParentCollection)

\* C14: the graph only grows: across every step of every operation
\* (ProcessMetric, SaveToFile, LoadFromFile in Start, Stop) each name-to-ID
\* pair, each key of EndpointMapping, ConnectionGraph and ParentCollection
\* and each ID in their lists stays.
C14_GraphOnlyGrows == [][Grows(td, td')]_vars

NoRepeat(list) == \A i, j \in 1..Len(list) : list[i] = list[j] => i = j

\* C15: in every reachable state, concurrent ProcessMetric calls of the same
\* or overlapping events included, no list of EndpointMapping, of
\* ConnectionGraph[u][d] or of ParentCollection holds an ID twice.
C15_NoDuplicates ==
    /\ \A k \in DOMAIN td.EndpointMapping : NoRepeat(td.EndpointMapping[k])
    /\ \A u \in DOMAIN td.ConnectionGraph :
          \A d \in DOMAIN td.ConnectionGraph[u] : NoRepeat(td.ConnectionGraph[u][d])
    /\ \A k \in DOMAIN td.ParentCollection : NoRepeat(td.ParentCollection[k])

\* all four topology fields and the own service name are present
Complete(m) ==
    /\ m.Topology /\ m.Service /= ""
    /\ Len(m.UpstreamServices) > 0 /\ Len(m.DownstreamServices) > 0
    /\ Len(m.UpstreamLinks) > 0 /\ Len(m.DownstreamLinks) > 0

\* the structure of two stores is the same: all maps and both counters
SameStructure(a, b) == Structure(a) = Structure(b)

Returns(t) == threads[t].pc = "after" /\ threads'[t].pc = "idle"

\* C16: when a call of ProcessMetric returns whose complete event is the one
\* the call before it submitted, the store (both name maps and their
\* reverse maps, EndpointMapping, ConnectionGraph, ParentCollection, both
\* counters) is as the first of the two calls left it.
C16_TwiceIsOnce ==
    [][\A t \in Callers :
          Returns(t) /\ Complete(threads[t].m) /\ threads[t].last.m = threads[t].m
             => SameStructure(td, threads[t].last.post)]_vars

\* a complete HTTP event was submitted twice in a row to a store that
\* another event had filled before, and has edges and parents recorded
C16_Witness ==
    /\ threads["c1"].pc = "idle" /\ threads["c1"].last.n = 2 /\ ops = 3
    /\ Complete(threads["c1"].last.m) /\ threads["c1"].last.m.MetricType = HTTP
    /\ td.ConnectionGraph /= EmptyMap /\ td.ParentCollection /= EmptyMap

Loads(t) == threads[t].pc = "fromJSON" /\ threads'[t].pc /= "fromJSON"

\* C17: when LoadFromFile reads a file that SaveToFile wrote into a freshly
\* constructed store, the store has afterwards the structure that was
\* saved: the two name maps, their reverse maps, EndpointMapping,
\* ConnectionGraph, ParentCollection and both counters.
C17_RoundTrip ==
    [][\A t \in Callers :
          Loads(t) /\ td = NewTopologyData /\ threads[t].snap /= Malformed
             => SameStructure(td', written[filename])]_vars

\* a new process has loaded a store with names, mappings, edges and parents
\* and with rows and lists that are empty
C17_Witness ==
    /\ isRunning /\ threads["c1"].pc = "idle" /\ threads["c1"].proc = "none"
    /\ file[filename] /= Malformed
    /\ td.EndpointMapping /= EmptyMap /\ td.ParentCollection /= EmptyMap
    /\ \E u \in DOMAIN td.ConnectionGraph :
          \E d \in DOMAIN td.ConnectionGraph[u] : td.ConnectionGraph[u][d] /= <<>>
    /\ \E k \in DOMAIN td.ParentCollection : td.ParentCollection[k] = <<>>
    /\ td.ServiceCounter > 3

Holds(t) == threads[t].pc = "report"

View(t) == Structure(Deref(threads[t].held))

\* C18: what GetTopologyData handed to a caller is its own: while the caller
\* holds it, a step of another goroutine (a later ProcessMetric) does not
\* change what the caller sees in it, and a write the caller makes through
\* it does not change the store.
C18_SnapshotIsolated ==
    [][\A t \in Callers :
          Holds(t) /\ Holds(t)' =>
             /\ threads'[t] = threads[t] => View(t)' = View(t)
             /\ View(t)' /= View(t) => td' = td]_vars

\* the list of links from u to d in a graph, empty when there is none
Cell(g, u, d) == IF Has(g, u) /\ Has(g[u], d) THEN g[u][d] ELSE <<>>

IsPrefix(a, b) == Len(a) <= Len(b) /\ SubSeq(b, 1, Len(a)) = a

\* the links AddToConnectionGraph(up, down, links) is to add from u to d
Paired(up, down, links, u, d) ==
    IF u \in Range(up)
    THEN {links[i] : i \in {j \in 1..Len(down) : j <= Len(links) /\ down[j] = d}}
    ELSE {}

AddsToGraph(t) == At(t, "addCG") /\ threads'[t].prog = Tail(threads[t].prog)

\* C19: a call AddToConnectionGraph(up, down, links) leaves in every entry
\* ConnectionGraph[u][d] what was there (in its order) and, for u in up,
\* the links[i] with down[i] = d and i within both lists; it adds no other
\* ID to any entry and removes no key.
C19_PositionalPairing ==
    [][\A t \in Callers : AddsToGraph(t) =>
          LET op    == Head(threads[t].prog)
              up    == IDs(td.ServiceCollection, op.us)
              down  == IDs(td.ServiceCollection, op.ds)
              links == IDs(td.EndpointCollection, op.dl)
              all   == DOMAIN td.ServiceReverse
          IN  /\ DOMAIN td.ConnectionGraph \subseteq DOMAIN td'.ConnectionGraph
              /\ \A u \in DOMAIN td'.ConnectionGraph :
                    /\ u \in all /\ DOMAIN td'.ConnectionGraph[u] \subseteq all
                    /\ Has(td.ConnectionGraph, u) =>
                          DOMAIN td.ConnectionGraph[u] \subseteq DOMAIN td'.ConnectionGraph[u]
              /\ \A u, d \in all :
                    /\ IsPrefix(Cell(td.ConnectionGraph, u, d), Cell(td'.ConnectionGraph, u, d))
                    /\ Range(Cell(td'.ConnectionGraph, u, d))
                          = Range(Cell(td.ConnectionGraph, u, d))
                            \cup Paired(up, down, links, u, d)]_vars

\* upstream [A, B], downstream [C, D], links [l1, l2] on the empty graph
\* has given A-C via l1, A-D via l2, B-C via l1, B-D via l2 and nothing else
C19_Witness ==
    /\ {"A", "B", "C", "D"} \subseteq DOMAIN td.ServiceCollection
    /\ {"l1", "l2"} \subseteq DOMAIN td.EndpointCollection
    /\ LET id == td.ServiceCollection
           l  == td.EndpointCollection
       IN  /\ DOMAIN td.ConnectionGraph = {id["A"], id["B"]}
           /\ \A u \in {"A", "B"} :
                 /\ DOMAIN td.ConnectionGraph[id[u]] = {id["C"], id["D"]}
                 /\ td.ConnectionGraph[id[u]][id["C"]] = <<l["l1"]>>
                 /\ td.ConnectionGraph[id[u]][id["D"]] = <<l["l2"]>>

\* the type tags a processor acts on
Recognized(proc, m) ==
    IF proc = "twoType" THEN m.MetricType \in {CONTROLLER, HTTP}
    ELSE m.MetricType = CONTROLLER

\* an event with upstream services and upstream links only, and its own
\* service name
UpstreamOnly(m) ==
    /\ m.Topology /\ m.Service /= ""
    /\ NonEmpty(m.UpstreamServices) /= <<>> /\ NonEmpty(m.UpstreamLinks) /= <<>>
    /\ m.DownstreamServices = <<>> /\ m.DownstreamLinks = <<>>

\* what the store holds when the call for the upstream-only event m returns
\* (post), given what it held when the call began (pre): the names are
\* registered; each entry ConnectionGraph[u][d] holds what it held, and the
\* upstream links if u is an upstream service and d the own service; each
\* upstream link has a ParentCollection entry, its parents if it had an
\* entry and none otherwise
UpstreamInferred(m, pre, post) ==
    LET names == Range(NonEmpty(m.UpstreamServices)) \cup {m.Service}
        lnks  == Range(NonEmpty(m.UpstreamLinks))
    IN  /\ names \subseteq DOMAIN post.ServiceCollection
        /\ lnks \subseteq DOMAIN post.EndpointCollection
        /\ LET up  == {post.ServiceCollection[n] : n \in Range(NonEmpty(m.UpstreamServices))}
               own == post.ServiceCollection[m.Service]
               ids == {post.EndpointCollection[l] : l \in lnks}
               all == DOMAIN post.ServiceReverse
           IN  /\ \A u \in DOMAIN post.ConnectionGraph :
                     u \in all /\ DOMAIN post.ConnectionGraph[u] \subseteq all
               /\ \A u, d \in all :
                     Range(Cell(post.ConnectionGraph, u, d))
                        = Range(Cell(pre.ConnectionGraph, u, d))
                          \cup (IF u \in up /\ d = own THEN ids ELSE {})
               /\ \A l \in ids :
                     /\ Has(post.ParentCollection, l)
                     /\ post.ParentCollection[l] = SliceAt(pre.ParentCollection, l)

\* C20 as stated: when a call of ProcessMetric for a recognized
\* upstream-only event with its own service name returns, every upstream
\* service, the own service and every upstream link are registered, every
\* upstream service has an edge to the own service through every upstream
\* link and no other edge was added, and every upstream link has a
\* ParentCollection entry (empty unless it had parents before).
C20_RecognizedUpstreamOnly ==
    [][\A t \in Callers :
          (/\ ProcessReturn(t)
           /\ Recognized(threads[t].proc, threads[t].m)
           /\ UpstreamOnly(threads[t].m))
          => UpstreamInferred(threads[t].m, threads[t].pre, td)]_vars

\* C20 for the events that reach the inference: the same, for an HTTP event
\* given to the two-type processor.
C20_HTTPUpstreamOnly ==
    [][\A t \in Callers :
          (/\ ProcessReturn(t)
           /\ threads[t].proc = "twoType"
           /\ threads[t].m.MetricType = HTTP
           /\ UpstreamOnly(threads[t].m))
          => UpstreamInferred(threads[t].m, threads[t].pre, td)]_vars

\* the HTTP event of B with upstream services [A, C] and upstream links
\* [l1, l2] has returned on a store that held edges and parents: A and C
\* each reach B through l1 and l2
C20_Witness ==
    LET last == threads["c1"].last
    IN  /\ threads["c1"].pc = "idle" /\ threads["c1"].proc = "twoType"
        /\ last.m = Metric(HTTP, "B", <<"A", "C">>, <<>>, <<"l1", "l2">>, <<>>)
        /\ last.post = td
        /\ LET id == td.ServiceCollection
               l  == td.EndpointCollection
           IN  /\ Range(Cell(td.ConnectionGraph, id["A"], id["B"])) = {l["l1"], l["l2"]}
               /\ Range(Cell(td.ConnectionGraph, id["C"], id["B"])) = {l["l1"], l["l2"]}
               /\ Range(Cell(td.ConnectionGraph, id["B"], id["C"])) = {l["l1"]}
               /\ td.ParentCollection[l["l1"]] = <<l["l2"]>>
               /\ td.ParentCollection[l["l2"]] = <<>>

\* an event with downstream services and downstream links, no upstream
\* service, and its own service name
DownstreamOnly(m) ==
    /\ m.Topology /\ m.Service /= ""
    /\ m.UpstreamServices = <<>>
    /\ m.DownstreamServices /= <<>> /\ m.DownstreamLinks /= <<>>

\* the indexes present in both sequences
Both(ds, dl) == {i \in 1..Len(ds) : i <= Len(dl)}

\* what the store holds when the call for the event of service own returns
\* (post), given what it held when the call began (pre), if ds[i] pairs
\* with dl[i]: dl[i] is in ConnectionGraph[own][ds[i]], and a link that is
\* new in an entry ConnectionGraph[u][d] is such a dl[i], with u the own
\* service and d the service ds[i]
DownstreamInferred(own, ds, dl, pre, post) ==
    LET id == post.ServiceCollection
        l  == post.EndpointCollection
        all == DOMAIN post.ServiceReverse
    IN  /\ Has(id, own)
        /\ \A i \in Both(ds, dl) :
              /\ Has(id, ds[i]) /\ Has(l, dl[i])
              /\ l[dl[i]] \in Range(Cell(post.ConnectionGraph, id[own], id[ds[i]]))
        /\ \A u \in DOMAIN post.ConnectionGraph :
              u \in all /\ DOMAIN post.ConnectionGraph[u] \subseteq all
        /\ \A u, d \in all :
              /\ IsPrefix(Cell(pre.ConnectionGraph, u, d), Cell(post.ConnectionGraph, u, d))
              /\ \A e \in Range(Cell(post.ConnectionGraph, u, d))
                             \ Range(Cell(pre.ConnectionGraph, u, d)) :
                    /\ u = id[own]
                    /\ \E i \in Both(ds, dl) :
                          Has(id, ds[i]) /\ Has(l, dl[i]) /\ id[ds[i]] = d /\ l[dl[i]] = e

\* C21 as stated: when a call of ProcessMetric for a recognized
\* downstream-only event with its own service name returns, for every index
\* i of both sequences the i-th downstream link is in
\* ConnectionGraph[own][i-th downstream service], and no other edge was
\* added.
C21_RecognizedDownstreamOnly ==
    [][\A t \in Callers :
          (/\ ProcessReturn(t)
           /\ Recognized(threads[t].proc, threads[t].m)
           /\ DownstreamOnly(threads[t].m))
          => DownstreamInferred(threads[t].m.Service, threads[t].m.DownstreamServices,
                                threads[t].m.DownstreamLinks, threads[t].pre, td)]_vars

\* C21 for the events that reach the inference, with the pairing the code
\* makes: the same, for an HTTP event given to the two-type processor, where
\* index i is an index of the two sequences without their empty names.
C21_HTTPDownstreamOnly ==
    [][\A t \in Callers :
          (/\ ProcessReturn(t)
           /\ threads[t].proc = "twoType"
           /\ threads[t].m.MetricType = HTTP
           /\ DownstreamOnly(threads[t].m))
          => DownstreamInferred(threads[t].m.Service,
                                NonEmpty(threads[t].m.DownstreamServices),
                                NonEmpty(threads[t].m.DownstreamLinks),
                                threads[t].pre, td)]_vars

\* the HTTP event of B with downstream services [C, D], downstream link
\* [l1] and an upstream link has returned after the event of A with
\* downstream [C, D] via [l1, l2]: B reaches C through l1 and has no edge
\* to D
C21_Witness ==
    LET last == threads["c1"].last
    IN  /\ threads["c1"].pc = "idle" /\ threads["c1"].proc = "twoType"
        /\ last.m = Metric(HTTP, "B", <<>>, <<"C", "D">>, <<"l2">>, <<"l1">>)
        /\ last.post = td
        /\ {"A", "B", "C", "D"} \subseteq DOMAIN td.ServiceCollection
        /\ LET id == td.ServiceCollection
               l  == td.EndpointCollection
           IN  /\ Cell(td.ConnectionGraph, id["B"], id["C"]) = <<l["l1"]>>
               /\ Cell(td.ConnectionGraph, id["B"], id["D"]) = <<>>
               /\ Cell(td.ConnectionGraph, id["A"], id["C"]) = <<l["l1"]>>
               /\ Cell(td.ConnectionGraph, id["A"], id["D"]) = <<l["l2"]>>

\* the IDs a store has given to the names of a list
LinkIDs(t, names) == {t.EndpointCollection[n] : n \in Range(NonEmpty(names))}

\* an event with upstream links and downstream links
BothLinks(m) ==
    m.Topology /\ NonEmpty(m.UpstreamLinks) /= <<>> /\ NonEmpty(m.DownstreamLinks) /= <<>>

\* every ParentCollection entry of pre is in post, with its parents first
\* and in their order
ParentsKept(pre, post) ==
    \A k \in DOMAIN pre.ParentCollection :
        Has(post.ParentCollection, k)
        /\ IsPrefix(pre.ParentCollection[k], post.ParentCollection[k])

\* the parents of each downstream link are the ones it had and the upstream
\* links; no entry of another link is added or changed
ParentageAdded(m, pre, post) ==
    /\ Range(NonEmpty(m.UpstreamLinks)) \cup Range(NonEmpty(m.DownstreamLinks))
          \subseteq DOMAIN post.EndpointCollection
    /\ ParentsKept(pre, post)
    /\ \A d \in LinkIDs(post, m.DownstreamLinks) :
          /\ Has(post.ParentCollection, d)
          /\ Range(post.ParentCollection[d])
                = Range(SliceAt(pre.ParentCollection, d)) \cup LinkIDs(post, m.UpstreamLinks)
    /\ \A k \in DOMAIN post.ParentCollection \ LinkIDs(post, m.DownstreamLinks) :
          Has(pre.ParentCollection, k) /\ post.ParentCollection[k] = pre.ParentCollection[k]

BuildsParents(proc, m) ==
    IF proc = "twoType" THEN m.MetricType = HTTP ELSE m.MetricType = CONTROLLER

OneSide(m) ==
    /\ m.Topology
    /\ \/ NonEmpty(m.UpstreamLinks) /= <<>> /\ m.DownstreamLinks = <<>>
       \/ NonEmpty(m.DownstreamLinks) /= <<>> /\ m.UpstreamLinks = <<>>

\* each link of the event has an entry; every entry holds the parents it
\* held, or none if it is new
RootsAdded(m, pre, post) ==
    /\ Range(NonEmpty(m.UpstreamLinks)) \cup Range(NonEmpty(m.DownstreamLinks))
          \subseteq DOMAIN post.EndpointCollection
    /\ \A k \in LinkIDs(post, m.UpstreamLinks) \cup LinkIDs(post, m.DownstreamLinks) :
          Has(post.ParentCollection, k)
    /\ DOMAIN pre.ParentCollection \subseteq DOMAIN post.ParentCollection
    /\ \A k \in DOMAIN post.ParentCollection :
          post.ParentCollection[k] = SliceAt(pre.ParentCollection, k)

\* C23 as stated: when a call of ProcessMetric for a recognized event with
\* links on one side only returns, each of its links has a ParentCollection
\* entry, no entry has a parent it did not have, and a link that had
\* parents has exactly those.
C23_RecognizedRoots ==
    [][\A t \in Callers :
          (/\ ProcessReturn(t)
           /\ Recognized(threads[t].proc, threads[t].m)
           /\ OneSide(threads[t].m))
          => RootsAdded(threads[t].m, threads[t].pre, td)]_vars

\* C23 for the events that reach processParentCollectionSmart: the same,
\* for an HTTP event given to the two-type processor.
C23_HTTPRoots ==
    [][\A t \in Callers :
          (/\ ProcessReturn(t)
           /\ threads[t].proc = "twoType"
           /\ threads[t].m.MetricType = HTTP
           /\ OneSide(threads[t].m))
          => RootsAdded(threads[t].m, threads[t].pre, td)]_vars

\* the HTTP event with upstream links [l3, l1] alone has returned on a
\* store where l3 had the parent l1 and l1 had no entry: l3 keeps l1, and l1
\* has an empty entry
C23_Witness ==
    LET last == threads["c1"].last
    IN  /\ threads["c1"].pc = "idle" /\ threads["c1"].proc = "twoType"
        /\ last.m = Metric(HTTP, "B", <<"A">>, <<>>, <<"l3", "l1">>, <<>>)
        /\ last.post = td
        /\ {"l1", "l3"} \subseteq DOMAIN td.EndpointCollection
        /\ LET l == td.EndpointCollection
           IN  /\ Has(td.ParentCollection, l["l1"]) /\ Has(td.ParentCollection, l["l3"])
               /\ td.ParentCollection[l["l3"]] = <<l["l1"]>>
               /\ td.ParentCollection[l["l1"]] = <<>>

\* an event with its own service name and upstream links
OwnLinks(m) == m.Topology /\ m.Service /= "" /\ NonEmpty(m.UpstreamLinks) /= <<>>

\* EndpointMapping of the own service holds every upstream link of the event
LinksMapped(m, post) ==
    /\ Has(post.ServiceCollection, m.Service)
    /\ Range(NonEmpty(m.UpstreamLinks)) \subseteq DOMAIN post.EndpointCollection
    /\ LinkIDs(post, m.UpstreamLinks)
          \subseteq Range(SliceAt(post.EndpointMapping, post.ServiceCollection[m.Service]))

\* C24: when a call of ProcessMetric for a recognized event (CONTROLLER or
\* HTTP in the two-type processor) with its own service name and upstream
\* links returns, EndpointMapping[ID of the own service] contains the ID of
\* every upstream link of the event.
C24_LinksMapped ==
    [][\A t \in Callers :
          (/\ ProcessReturn(t)
           /\ Recognized(threads[t].proc, threads[t].m)
           /\ OwnLinks(threads[t].m))
          => LinksMapped(threads[t].m, td)]_vars

\* a Topology whose four lists are empty
EmptyPayload(m) ==
    /\ m.Topology
    /\ m.UpstreamServices = <<>> /\ m.DownstreamServices = <<>>
    /\ m.UpstreamLinks = <<>> /\ m.DownstreamLinks = <<>>

\* the store pre with the name registered, and nothing else changed
OnlyRegistered(name, pre, post) ==
    IF name = "" THEN post = pre ELSE post = GetServiceID(pre, name).td

\* C25 as stated: when a call of ProcessMetric for a recognized event
\* without Topology returns, the store is the one the call began with,
\* except that the own service name of the event, if it is not empty, is
\* registered.
C25_RegistersOwnService ==
    [][\A t \in Callers :
          (/\ ProcessReturn(t)
           /\ Recognized(threads[t].proc, threads[t].m)
           /\ ~threads[t].m.Topology)
          => OnlyRegistered(threads[t].m.Service, threads[t].pre, td)]_vars

\* C25 as the code has it: when a call of ProcessMetric for a recognized
\* event without Topology returns, the store is the one the call began
\* with, the own service not registered; with a Topology of four empty
\* lists the two-type processor registers the own service and changes
\* nothing else, and the single-type processor changes nothing.
C25_NoTopologyNoChange ==
    [][\A t \in Callers :
          (ProcessReturn(t) /\ Recognized(threads[t].proc, threads[t].m))
          => /\ ~threads[t].m.Topology => td = threads[t].pre
             /\ EmptyPayload(threads[t].m) =>
                   IF threads[t].proc = "twoType"
                   THEN OnlyRegistered(threads[t].m.Service, threads[t].pre, td)
                   ELSE td = threads[t].pre]_vars

\* the CONTROLLER event of D without Topology has returned on a store that
\* holds other services: D is not registered
C25_Witness ==
    LET last == threads["c1"].last
    IN  /\ threads["c1"].pc = "idle"
        /\ last.m = NoTopology(CONTROLLER, "D")
        /\ last.post = td
        /\ td.ServiceCollection /= EmptyMap
        /\ ~Has(td.ServiceCollection, "D")

\* C26: when a call of ProcessMetric for an event whose type the processor
\* does not recognize returns, the store is the one the call began with:
\* every map, both counters and hasChanges.
C26_UnrecognizedIgnored ==
    [][\A t \in Callers :
          (ProcessReturn(t) /\ ~Recognized(threads[t].proc, threads[t].m))
          => td = threads[t].pre]_vars

\* the HTTP event of A with a complete payload has returned from the
\* single-type processor, on a store filled by CONTROLLER events: A and C
\* are not registered
C26_Witness ==
    LET last == threads["c1"].last
    IN  /\ threads["c1"].pc = "idle" /\ threads["c1"].proc = "singleType"
        /\ last.m = Metric(HTTP, "A", <<"B">>, <<"C">>, <<"l1">>, <<"l2">>)
        /\ last.post = td
        /\ td.hasChanges
        /\ Has(td.ServiceCollection, "B")
        /\ ~Has(td.ServiceCollection, "C")
        /\ ~Has(td.EndpointCollection, "l2")

\* the events the README says are processed: CONTROLLER, with four
\* non-empty topology fields
CompleteController(m) ==
    /\ m.MetricType = CONTROLLER /\ m.Topology
    /\ m.UpstreamServices /= <<>> /\ m.DownstreamServices /= <<>>
    /\ m.UpstreamLinks /= <<>> /\ m.DownstreamLinks /= <<>>

\* C30: when a call of ProcessMetric returns for a metric that is not a
\* CONTROLLER metric with four non-empty topology fields, the topology data
\* are the ones the call began with.
C30_OnlyCompleteController ==
    [][\A t \in Callers :
          (ProcessReturn(t) /\ ~CompleteController(threads[t].m))
          => Structure(td) = Structure(threads[t].pre)]_vars

\* the store call a goroutine makes next has nothing new to add: the name
\* is known, or every ID the call is to add is in the entry it goes to
AddsNothing(t) ==
    LET op == Head(threads[t].prog)
        l  == td.EndpointCollection
    IN  CASE op.k = "svc" -> Has(td.ServiceCollection, op.n)
          [] op.k = "ep" -> Has(l, op.n)
          [] op.k = "addEM" ->
               Range(IDs(l, op.ul))
                  \subseteq Range(SliceAt(td.EndpointMapping, td.ServiceCollection[op.s]))
          [] op.k = "addCG" ->
               LET up   == IDs(td.ServiceCollection, op.us)
                   down == IDs(td.ServiceCollection, op.ds)
               IN  \A u \in Range(up), d \in Range(down) :
                      Paired(up, down, IDs(l, op.dl), u, d)
                         \subseteq Range(Cell(td.ConnectionGraph, u, d))
          [] op.k = "addPC" ->
               \A d \in Range(IDs(l, op.dl)) :
                  Range(IDs(l, op.ul)) \subseteq Range(SliceAt(td.ParentCollection, d))

\* a goroutine makes a call of one of the five mutating methods of the store
StoreCall(t) ==
    /\ \E k \in {"svc", "ep", "addEM", "addCG", "addPC"} : At(t, k)
    /\ threads'[t].prog = Tail(threads[t].prog)

\* C27: a call of GetServiceID or GetEndpointID for a known name, and a call
\* of AddToEndpointMapping, AddToConnectionGraph or AddToParentCollection
\* whose IDs are all in place, leaves hasChanges (and the store) as it was;
\* and a call of ProcessMetric that returns with the structure it began
\* with, as the call for an event seen before does, returns with the
\* hasChanges it began with: false after a successful save.
C27_NothingNewKeepsFlag ==
    [][\A t \in Callers :
          /\ (StoreCall(t) /\ AddsNothing(t)) => td' = td
          /\ (ProcessReturn(t) /\ SameStructure(td, threads[t].pre))
                => td.hasChanges = threads[t].pre.hasChanges]_vars

\* the complete HTTP event of A was processed, the store saved, and the
\* same event has returned again: the store is the one in the file and
\* hasChanges is false
C27_Witness ==
    LET last == threads["c1"].last
    IN  /\ threads["c1"].pc = "idle" /\ threads["c1"].proc = "twoType"
        /\ last.m = Metric(HTTP, "A", <<"B">>, <<"C">>, <<"l1">>, <<"l2">>)
        /\ last.post = td
        /\ td.ConnectionGraph /= EmptyMap
        /\ ~td.hasChanges
        /\ file[filename] /= NoFile
        /\ written[filename] = Structure(td)

\* C28: a call of LoadFromFile for a path with no file returns nil and
\* leaves the store as it was (an empty store empty); a call for a file
\* that is no JSON document returns an error.
C28_LoadErrors ==
    [][\A t \in Callers :
          LoadReturn(t) =>
             /\ threads[t].snap = NoFile =>
                   threads[t].pc = "loaded" /\ td = threads[t].pre
             /\ threads[t].snap = Malformed => threads[t].pc = "loadFailed"]_vars

\* LoadFromFile has returned nil for a path with no file, on a store that
\* events had filled, while the other path holds a file that is no JSON
\* document
C28_Witness ==
    /\ threads["c1"].pc = "loaded" /\ threads["c1"].snap = NoFile
    /\ file[threads["c1"].name] = NoFile
    /\ td.ServiceCollection /= EmptyMap /\ td = threads["c1"].pre
    /\ \E f \in Filenames : file[f] = Malformed

\* C29: hasChanges is false after construction and after every
\* LoadFromFile that Start makes, whatever the store held before.
C29_CleanAfterLoad ==
    [][/\ Restart => ~td'.hasChanges
       /\ \A t \in Callers :
             (Loads(t) \/ StartNoFile(t)) => ~td'.hasChanges]_vars

\* a goroutine is inside SaveToFile, or inside the loop iteration that
\* calls it
SaveInProgress ==
    \E t \in Threads :
       threads[t].pc \in {"counts", "toJSON", "write", "markSaved", "markAgain", "log"}

\* C31: whenever hasChanges is false and no save is in progress, the
\* structure last written to the file (all maps and both counters) is the
\* structure in memory.
C31_CleanMeansSaved ==
    (~td.hasChanges /\ ~SaveInProgress) => written[filename] = Structure(td)

\* the store holds something the file does not
Unsaved == written[filename] /= Structure(td)

\* C32: under the change-based policy, while the manager runs, a store that
\* holds a change the file does not hold leads to a file that holds the
\* store (or to the end of the run).
C32_ChangesReachFile ==
    (policy = "changeBased" /\ isRunning /\ Unsaved) ~> (~Unsaved \/ ~isRunning \/ crashed)

\* C33: in every reachable state every key of EndpointMapping and every
\* upstream and downstream key of ConnectionGraph is an ID of
\* ServiceReverse, and every ID in an EndpointMapping list, in a
\* ConnectionGraph link list, and every key and member of ParentCollection
\* is an ID of EndpointReverse.
C33_ReferentialIntegrity ==
    LET svc == DOMAIN td.ServiceReverse
        ep  == DOMAIN td.EndpointReverse
    IN  /\ DOMAIN td.EndpointMapping \subseteq svc
        /\ \A k \in DOMAIN td.EndpointMapping : Range(td.EndpointMapping[k]) \subseteq ep
        /\ DOMAIN td.ConnectionGraph \subseteq svc
        /\ \A u \in DOMAIN td.ConnectionGraph :
              /\ DOMAIN td.ConnectionGraph[u] \subseteq svc
              /\ \A d \in DOMAIN td.ConnectionGraph[u] :
                    Range(td.ConnectionGraph[u][d]) \subseteq ep
        /\ DOMAIN td.ParentCollection \subseteq ep
        /\ \A k \in DOMAIN td.ParentCollection : Range(td.ParentCollection[k]) \subseteq ep

\* a store with endpoint mappings, edges and parents into which Start has
\* loaded a file that SaveToFile wrote
C33_Witness ==
    /\ isRunning
    /\ file[filename] /= NoFile /\ file[filename] /= Malformed
    /\ td.EndpointMapping /= EmptyMap
    /\ td.ConnectionGraph /= EmptyMap
    /\ \E k \in DOMAIN td.ParentCollection : td.ParentCollection[k] /= <<>>
    /\ \E k \in DOMAIN td.ParentCollection : td.ParentCollection[k] = <<>>

\* One step of a ProcessMetric call that no other goroutine runs beside: the
\* store after a store call, or after a direct map access of the smart paths.
Step(t, op) ==
    CASE op.k = "svc" -> GetServiceID(t, op.n).td
      [] op.k = "ep" -> GetEndpointID(t, op.n).td
      [] op.k = "addEM" ->
           AddToEndpointMapping(t, t.ServiceCollection[op.s],
                                IDs(t.EndpointCollection, op.ul))
      [] op.k = "addCG" ->
           AddToConnectionGraph(t, IDs(t.ServiceCollection, op.us),
                                IDs(t.ServiceCollection, op.ds),
                                IDs(t.EndpointCollection, op.dl))
      [] op.k = "addPC" ->
           AddToParentCollection(t, IDs(t.EndpointCollection, op.ul),
                                 IDs(t.EndpointCollection, op.dl))
      [] op.k \in {"cgOuter", "cgInner", "cgLink"} ->
           IF SmartGraphNeedsWrite(t, op) THEN SmartGraphStore(t, op) ELSE t
      [] op.k = "pcRoot" ->
           IF ~Has(t.ParentCollection, t.EndpointCollection[op.l])
           THEN SmartRootStore(t, op) ELSE t

\* the store that a ProcessMetric call returns with when it starts on t
RECURSIVE Run(_, _)
Run(t, prog) == IF prog = <<>> THEN t ELSE Run(Step(t, Head(prog)), Tail(prog))

\* what a store holds, by name: the service and endpoint names, the edges
\* (upstream, downstream, link), the endpoint-mapping entries (service,
\* link), the keys of ParentCollection and its entries (child, parent)
Facts(t) ==
    [ services  |-> DOMAIN t.ServiceCollection,
      endpoints |-> DOMAIN t.EndpointCollection,
      edges     |-> UNION {UNION {{<<t.ServiceReverse[u], t.ServiceReverse[d],
                                    t.EndpointReverse[l]>> :
                                      l \in Range(t.ConnectionGraph[u][d])} :
                                  d \in DOMAIN t.ConnectionGraph[u]} :
                           u \in DOMAIN t.ConnectionGraph},
      mapped    |-> UNION {{<<t.ServiceReverse[s], t.EndpointReverse[l]>> :
                              l \in Range(t.EndpointMapping[s])} :
                           s \in DOMAIN t.EndpointMapping},
      children  |-> {t.EndpointReverse[c] : c \in DOMAIN t.ParentCollection},
      parents   |-> UNION {{<<t.EndpointReverse[c], t.EndpointReverse[p]>> :
                              p \in Range(t.ParentCollection[c])} :
                           c \in DOMAIN t.ParentCollection} ]

Contains(a, b) ==
    \A f \in DOMAIN Facts(b) : Facts(b)[f] \subseteq Facts(a)[f]

\* the return of a single-type ProcessMetric call for a controller event
SingleControllerReturn(t) ==
    /\ ProcessReturn(t)
    /\ threads[t].proc = "singleType"
    /\ threads[t].m.MetricType = CONTROLLER

\* a call that no other goroutine runs beside returns with the store of Run
RunIsTheCall ==
    [][ProcessReturn("c1") =>
          td = Run(threads["c1"].pre, Program(threads["c1"].proc, threads["c1"].m))]_vars

\* C34: for every event of the controller type and every start state, the
\* store that the two-type ProcessMetric returns with contains every name,
\* edge, endpoint-mapping entry and parent entry of the store that the
\* single-type ProcessMetric returns with from the same start state.
C34_TwoTypeGeneralizes ==
    [][SingleControllerReturn("c1") =>
          Contains(Run(threads["c1"].pre, ProcessMetric(threads["c1"].m)), td)]_vars

\* ... which holds of the names and the endpoint-mapping entries
C34_NamesAndMappings ==
    [][SingleControllerReturn("c1") =>
          LET two == Facts(Run(threads["c1"].pre, ProcessMetric(threads["c1"].m)))
              one == Facts(td)
          IN  /\ one.services \subseteq two.services
              /\ one.endpoints \subseteq two.endpoints
              /\ one.mapped \subseteq two.mapped]_vars

\* C35: a call of LoadFromFile that returns an error returns with the store
\* it began with (all maps, both counters and hasChanges), and the load in
\* Start leaves the store either as it was or loaded from the whole
\* document.
C35_FailedLoadKeepsStore ==
    [][/\ (LoadReturn("c1") /\ threads["c1"].pc = "loadFailed") => td = threads["c1"].pre
       /\ StartFromJSON("c1") =>
             td' = IF UnmarshalFails(threads["c1"].snap)
                   THEN td ELSE FromJSON(td, threads["c1"].snap)]_vars

\* ... which holds of a file that is no JSON document
C35_RejectedDocumentKeepsStore ==
    [][/\ (LoadReturn("c1") /\ threads["c1"].snap = Malformed) => td = threads["c1"].pre
       /\ (StartFromJSON("c1") /\ threads["c1"].snap = Malformed) => td' = td]_vars

====
